---------------------------- MODULE Spec2Model ----------------------------
(***************************************************************************)
(* A model of the synchronisation engine of bishopric-life:                *)
(*   scripts/sync_from_membertools.py  (the eight-step full sync)          *)
(*   scripts/sync_from_lcr.py          (sync_members, the name fallback)   *)
(* Tables are sets of rows (records); SQL NULL is the empty tuple and a    *)
(* present value v is the one-element tuple <<v>>.  Python strings are     *)
(* TLA+ strings, handled character by character with Len/SubSeq/\o.        *)
(***************************************************************************)
EXTENDS Integers, Sequences, FiniteSets, TLC

(***************************************************************************)
(* SQL NULL / Python None, and present values.                             *)
(***************************************************************************)
NULL == <<>>
Some(v) == <<v>>
IsNull(o) == o = <<>>
NotNull(o) == o # <<>>
Val(o) == o[1]
\* SQL COALESCE(a, b)
COALESCE(a, b) == IF NotNull(a) THEN a ELSE b

(***************************************************************************)
(* Python string primitives.                                               *)
(***************************************************************************)
UpperChars == "ABCDEFGHIJKLMNOPQRSTUVWXYZ"
LowerChars == "abcdefghijklmnopqrstuvwxyz"
DigitChars == "0123456789"

CharAt(s, i) == SubSeq(s, i, i)

\* index (1-based) of the one-character string c in alphabet, 0 when absent
IndexIn(alphabet, c) ==
    IF \E i \in 1..Len(alphabet) : CharAt(alphabet, i) = c
    THEN CHOOSE i \in 1..Len(alphabet) : CharAt(alphabet, i) = c
    ELSE 0

\* the case tables of str.lower() and str.upper()
ToLower ==
    [c \in {CharAt(UpperChars, i) : i \in 1..Len(UpperChars)} |->
        CharAt(LowerChars, IndexIn(UpperChars, c))]
ToUpper ==
    [c \in {CharAt(LowerChars, i) : i \in 1..Len(LowerChars)} |->
        CharAt(UpperChars, IndexIn(LowerChars, c))]

LowerChar(c) == IF c \in DOMAIN ToLower THEN ToLower[c] ELSE c

UpperChar(c) == IF c \in DOMAIN ToUpper THEN ToUpper[c] ELSE c

RECURSIVE MapChars(_, _, _)
MapChars(s, i, up) ==
    IF i > Len(s) THEN ""
    ELSE (IF up THEN UpperChar(CharAt(s, i)) ELSE LowerChar(CharAt(s, i)))
         \o MapChars(s, i + 1, up)

\* str.lower() and str.upper()
lower(s) == MapChars(s, 1, FALSE)
upper(s) == MapChars(s, 1, TRUE)

\* Python's  p in s  on strings
Contains(s, p) ==
    \E i \in 1..(Len(s) - Len(p) + 1) : SubSeq(s, i, i + Len(p) - 1) = p

\* str.startswith
StartsWith(s, p) == Len(p) <= Len(s) /\ SubSeq(s, 1, Len(p)) = p

IsSpace(c) == c = " "

\* str.strip()
RECURSIVE LStrip(_)
LStrip(s) ==
    IF Len(s) > 0 /\ IsSpace(CharAt(s, 1)) THEN LStrip(SubSeq(s, 2, Len(s))) ELSE s
RECURSIVE RStrip(_)
RStrip(s) ==
    IF Len(s) > 0 /\ IsSpace(CharAt(s, Len(s)))
    THEN RStrip(SubSeq(s, 1, Len(s) - 1)) ELSE s
strip(s) == RStrip(LStrip(s))

\* position of the first occurrence of the character c in s, 0 when absent
FirstIndex(s, c) ==
    IF \E i \in 1..Len(s) : CharAt(s, i) = c
    THEN CHOOSE i \in 1..Len(s) :
             CharAt(s, i) = c /\ \A j \in 1..(i - 1) : CharAt(s, j) # c
    ELSE 0

\* str.split() with no argument: the whitespace-separated words, in order
RECURSIVE split(_)
split(s) ==
    LET t == LStrip(s)
        k == FirstIndex(t, " ")
    IN  IF Len(t) = 0 THEN <<>>
        ELSE IF k = 0 THEN <<t>>
        ELSE <<SubSeq(t, 1, k - 1)>> \o split(SubSeq(t, k + 1, Len(t)))

\* ' '.join(words)
RECURSIVE join(_)
join(words) ==
    IF Len(words) = 0 THEN ""
    ELSE IF Len(words) = 1 THEN words[1]
    ELSE words[1] \o " " \o join(Tail(words))

\* str.isdigit()
isdigit(s) ==
    Len(s) > 0 /\ \A i \in 1..Len(s) : IndexIn(DigitChars, CharAt(s, i)) # 0

\* int(s) for a string of digits
RECURSIVE int(_)
int(s) ==
    IF Len(s) = 0 THEN 0
    ELSE 10 * int(SubSeq(s, 1, Len(s) - 1))
         + (IndexIn(DigitChars, CharAt(s, Len(s))) - 1)


(***************************************************************************)
(* Python values of mixed type (a JSON number or a JSON string), tagged.   *)
(***************************************************************************)
PyInt(n) == <<"int", n>>
PyStr(s) == <<"str", s>>
IsPyInt(v) == NotNull(v) /\ v[1] = "int"
IsPyStr(v) == NotNull(v) /\ v[1] = "str"
\* Python truthiness of None / int / str
Truthy(v) ==
    /\ NotNull(v)
    /\ (IsPyInt(v) => v[2] # 0)
    /\ (IsPyStr(v) => v[2] # "")
\* Python's  a or b
PyOr(a, b) == IF Truthy(a) THEN a ELSE b
\* truthiness of an optional string ('' and None are falsy)
TruthyStr(o) == NotNull(o) /\ Val(o) # ""
\* a or b  on optional strings
OrStr(a, b) == IF TruthyStr(a) THEN a ELSE b

(***************************************************************************)
(* The clock read by datetime.now() / datetime.today().                    *)
(***************************************************************************)
today == "2026-01-04"

(***************************************************************************)
(* datetime.strptime(s, '%Y-%m-%d'): four-digit year, month 1..12 and day  *)
(* of one or two digits, a day the month has.  NULL when it raises.        *)
(***************************************************************************)
DaysInMonth(y, m) ==
    IF m \in {4, 6, 9, 11} THEN 30
    ELSE IF m # 2 THEN 31
    ELSE IF (y % 4 = 0 /\ y % 100 # 0) \/ y % 400 = 0 THEN 29 ELSE 28

strptime_ymd(s) ==
    LET k1 == FirstIndex(s, "-")
        rest == SubSeq(s, k1 + 1, Len(s))
        k2 == FirstIndex(rest, "-")
        ys == SubSeq(s, 1, k1 - 1)
        ms == SubSeq(rest, 1, k2 - 1)
        ds == SubSeq(rest, k2 + 1, Len(rest))
    IN  IF k1 = 0 \/ k2 = 0 THEN NULL
        ELSE IF ~(isdigit(ys) /\ isdigit(ms) /\ isdigit(ds)) THEN NULL
        ELSE IF Len(ys) # 4 \/ Len(ms) > 2 \/ Len(ds) > 2 THEN NULL
        ELSE IF int(ys) < 1 \/ int(ms) \notin 1..12 THEN NULL
        ELSE IF int(ds) \notin 1..DaysInMonth(int(ys), int(ms)) THEN NULL
        ELSE Some([y |-> int(ys), m |-> int(ms), d |-> int(ds)])

\* (datetime.now() - bd).days // 365, counted in whole years of the clock
years_since(bd) ==
    LET now == Val(strptime_ymd(today))
        full == now.y - bd.y
    IN  IF now.m < bd.m \/ (now.m = bd.m /\ now.d < bd.d) THEN full - 1 ELSE full

(***************************************************************************)
(* Fields of the membertools payload (client.sync() and client.get_user()).*)
(* A key that is missing or null is NULL.                                  *)
(***************************************************************************)
Position(uuid, name, type, unitName, unitNumber, activeDate, setApart) ==
    [uuid |-> uuid, name |-> name, type |-> type, unitName |-> unitName,
     unitNumber |-> unitNumber, activeDate |-> activeDate, setApart |-> setApart]

\* a member of a household; id holds legacyCmisId and id, ct the contact
\* fields [email, phone, birthDate, classifications]
ExtMember(uuid, names, id, ct, positions) ==
    [uuid |-> uuid, listed |-> names.listed, spoken |-> names.spoken,
     given |-> names.given, email |-> ct.email, phone |-> ct.phone,
     birthDate |-> ct.birthDate, classifications |-> ct.classifications,
     legacyCmisId |-> id.legacyCmisId, id |-> id.id, positions |-> positions]

ExtHousehold(uuid, unitNumber, listed, family, address, members) ==
    [uuid |-> uuid, unitNumber |-> unitNumber, listed |-> listed,
     family |-> family, address |-> address, members |-> members]

ExtOrg(name, positions, childOrgs) ==
    [name |-> name, positions |-> positions, childOrgs |-> childOrgs]

(***************************************************************************)
(* The storage layer: the unique index on members.church_id (the arbiter   *)
(* of ON CONFLICT (church_id)); NULLs never conflict.                      *)
(***************************************************************************)
ChurchIdTaken(rows, church_id) ==
    NotNull(church_id) /\ \E m \in rows : m.church_id = church_id

(***************************************************************************)
(* sync_members_and_households: the member name, from names.listed         *)
(* ("Last, First Middle"), else names.spoken ("First Last"), else the      *)
(* given name with the household's family name.                            *)
(***************************************************************************)
member_name(member, household) ==
    LET given == IF NotNull(member.given) THEN Val(member.given) ELSE ""
        listed == IF NotNull(member.listed) THEN Val(member.listed) ELSE ""
        spoken == IF NotNull(member.spoken) THEN Val(member.spoken) ELSE ""
        k == FirstIndex(listed, ",")
        after == strip(SubSeq(listed, k + 1, Len(listed)))
        sp == split(spoken)
    IN  IF listed # "" /\ k # 0
        THEN [first |-> IF after # "" THEN split(after)[1] ELSE given,
              last |-> strip(SubSeq(listed, 1, k - 1))]
        ELSE IF spoken # ""
        THEN [first |-> IF Len(sp) > 0 THEN sp[1] ELSE given,
              last |-> IF Len(sp) > 1 THEN join(Tail(sp)) ELSE ""]
        ELSE [first |-> given,
              last |-> IF NotNull(household.family) THEN Val(household.family) ELSE ""]

\* age from birthDate ("--MM-DD" hides the year), NULL when unknown
member_age(member) ==
    IF ~TruthyStr(member.birthDate) \/ StartsWith(Val(member.birthDate), "--")
    THEN NULL
    ELSE LET bd == strptime_ymd(Val(member.birthDate))
         IN  IF IsNull(bd) THEN NULL ELSE Some(years_since(Val(bd)))

\* the numeric church id: legacyCmisId or id, an int kept, a string of
\* digits converted, any other truthy value dropped
member_church_id(member) ==
    LET church_id == PyOr(member.legacyCmisId, member.id)
    IN  IF Truthy(church_id) /\ IsPyStr(church_id) /\ isdigit(church_id[2])
        THEN PyInt(int(church_id[2]))
        ELSE IF Truthy(church_id) /\ ~IsPyInt(church_id) THEN NULL
        ELSE church_id

\* the row the member upsert sends
member_row(member, household) ==
    LET nm == member_name(member, household)
        cid == member_church_id(member)
    IN  [id |-> Val(member.uuid),
         household_id |-> household.uuid,
         first_name |-> nm.first,
         last_name |-> nm.last,
         email |-> member.email,
         phone |-> member.phone,
         gender |-> NULL,
         age |-> member_age(member),
         is_active |-> ("HEAD" \in member.classifications
                        \/ "SPOUSE" \in member.classifications),
         church_id |-> IF IsPyInt(cid) THEN Some(cid[2]) ELSE NULL]

\* the church_id parameter is something the integer column accepts
church_id_storable(member) ==
    LET cid == member_church_id(member) IN IsNull(cid) \/ IsPyInt(cid)


\* the update sets church_id = EXCLUDED.church_id
members_upsert_excluded_id(ms, row) ==
    LET hit == {m \in ms : m.id = row.id}
        old == CHOOSE m \in hit : TRUE
        new == [old EXCEPT !.household_id = row.household_id,
                           !.first_name = row.first_name,
                           !.last_name = row.last_name,
                           !.email = row.email,
                           !.phone = row.phone,
                           !.gender = COALESCE(row.gender, old.gender),
                           !.age = COALESCE(row.age, old.age),
                           !.is_active = row.is_active,
                           !.church_id = row.church_id]
    IN  IF hit = {}
        THEN IF ChurchIdTaken(ms, row.church_id)
             THEN [ok |-> FALSE, members |-> ms]
             ELSE [ok |-> TRUE, members |-> ms \cup {row}]
        ELSE IF ChurchIdTaken(ms \ hit, new.church_id)
             THEN [ok |-> FALSE, members |-> ms]
             ELSE [ok |-> TRUE, members |-> (ms \ hit) \cup {new}]

(***************************************************************************)
(* INSERT INTO members ... ON CONFLICT (id) DO UPDATE (membertools).  The  *)
(* result is [ok, members]; ok is FALSE when the statement raises (the     *)
(* unique index on church_id, which ON CONFLICT (id) does not arbitrate).  *)
(***************************************************************************)
members_upsert_by_id(ms, row) ==
    LET hit == {m \in ms : m.id = row.id}
        old == CHOOSE m \in hit : TRUE
        new == [old EXCEPT !.household_id = row.household_id,
                           !.first_name = row.first_name,
                           !.last_name = row.last_name,
                           !.email = row.email,
                           !.phone = row.phone,
                           !.gender = COALESCE(row.gender, old.gender),
                           !.age = COALESCE(row.age, old.age),
                           !.is_active = row.is_active,
                           !.church_id = COALESCE(row.church_id, old.church_id)]
    IN  IF hit = {}
        THEN IF ChurchIdTaken(ms, row.church_id)
             THEN [ok |-> FALSE, members |-> ms]
             ELSE [ok |-> TRUE, members |-> ms \cup {row}]
        ELSE IF ChurchIdTaken(ms \ hit, new.church_id)
             THEN [ok |-> FALSE, members |-> ms]
             ELSE [ok |-> TRUE, members |-> (ms \ hit) \cup {new}]

\* INSERT INTO households ... ON CONFLICT (id) DO UPDATE
households_upsert(hs, row) ==
    {h \in hs : h.id # row.id} \cup {row}

\* the name a household is stored under
household_name(household) ==
    LET own == OrStr(household.listed, household.family)
        first_member == household.members[1]
    IN  IF TruthyStr(own) THEN Val(own)
        ELSE IF Len(household.members) > 0
        THEN LET n == OrStr(first_member.spoken, first_member.listed)
             IN  IF TruthyStr(n) THEN Val(n) ELSE "Unknown"
        ELSE "Unknown"

\* households = [h for h in households if h.get('unitNumber') == home_unit]
in_home_unit(household, home_unit) ==
    (NotNull(home_unit) /\ Val(home_unit) # 0) => household.unitNumber = home_unit

(***************************************************************************)
(* sync_members_and_households, one member and one household at a time.    *)
(* st is [ok, members, households, member_uuid_map].                       *)
(***************************************************************************)
sync_one_member(st, member, household) ==
    IF ~st.ok \/ ~TruthyStr(member.uuid) THEN st
    ELSE IF ~church_id_storable(member) THEN [st EXCEPT !.ok = FALSE]
    ELSE LET r == members_upsert_by_id(st.members, member_row(member, household))
         IN  IF ~r.ok THEN [st EXCEPT !.ok = FALSE]
             ELSE [st EXCEPT !.members = r.members,
                             !.member_uuid_map = @ \cup {Val(member.uuid)}]

RECURSIVE sync_household_members(_, _, _, _)
sync_household_members(st, household, ms, i) ==
    IF i > Len(ms) THEN st
    ELSE sync_household_members(sync_one_member(st, ms[i], household),
                                household, ms, i + 1)

sync_one_household(st, household) ==
    IF ~st.ok \/ ~TruthyStr(household.uuid) THEN st
    ELSE LET row == [id |-> Val(household.uuid),
                     household_name |-> household_name(household),
                     address |-> household.address]
             st1 == [st EXCEPT !.households = households_upsert(@, row)]
         IN  sync_household_members(st1, household, household.members, 1)

RECURSIVE sync_households(_, _, _)
sync_households(st, hs, i) ==
    IF i > Len(hs) THEN st
    ELSE sync_households(sync_one_household(st, hs[i]), hs, i + 1)

\* the households of data the run processes, in order
RECURSIVE SelectHouseholds(_, _, _)
SelectHouseholds(hs, i, home_unit) ==
    IF i > Len(hs) THEN <<>>
    ELSE (IF in_home_unit(hs[i], home_unit) THEN <<hs[i]>> ELSE <<>>)
         \o SelectHouseholds(hs, i + 1, home_unit)

\* a member sync that keeps only the members and households of the payload
mirror_members(db, data, home_unit) ==
    sync_households([ok |-> TRUE, members |-> {}, households |-> {},
                     member_uuid_map |-> {}],
                    SelectHouseholds(data.households, 1, home_unit), 1)

\* db is the record of tables; the result adds ok and member_uuid_map (the
\* member ids are the uuids, so the map is the set of uuids it holds).  An
\* exception leaves the tables as they were: nothing was committed.
sync_members_and_households(db, data, home_unit) ==
    LET st0 == [ok |-> TRUE, members |-> db.members,
                households |-> db.households, member_uuid_map |-> {}]
        st == sync_households(st0, SelectHouseholds(data.households, 1, home_unit), 1)
    IN  IF st.ok THEN st
        ELSE [ok |-> FALSE, members |-> db.members,
              households |-> db.households, member_uuid_map |-> {}]


(***************************************************************************)
(* Statements run in program order: the tables v that one statement leaves *)
(* are computed before the statements K that follow it.                    *)
(***************************************************************************)
Do(v, K(_)) == CHOOSE r \in {K(w) : w \in {v}} : TRUE

(***************************************************************************)
(* Lookups in the tables of db (ids are unique within a table).            *)
(***************************************************************************)
RowById(rows, id) == CHOOSE r \in rows : r.id = id
HasId(rows, id) == \E r \in rows : r.id = id

\* calling_assignments JOIN callings JOIN organizations JOIN members
AssignmentJoin(db) ==
    LET joined == {ca \in db.calling_assignments :
                      /\ HasId(db.callings, ca.calling_id)
                      /\ HasId(db.organizations,
                               RowById(db.callings, ca.calling_id).organization_id)
                      /\ HasId(db.members, ca.member_id)}
        calling(ca) == RowById(db.callings, ca.calling_id)
    IN  {[ca |-> ca, c |-> calling(ca),
          o |-> RowById(db.organizations, calling(ca).organization_id),
          m |-> RowById(db.members, ca.member_id)] : ca \in joined}

(***************************************************************************)
(* capture_pre_sync_snapshot: DELETE, then INSERT ... SELECT of the active *)
(* assignments of members that have a church id.  A snapshot row's id is   *)
(* the id of the assignment it was read from.                              *)
(***************************************************************************)
capture_nothing(db) == [db EXCEPT !.pre_sync_calling_snapshot = {}]

\* the capture without its DELETE: the rows of earlier runs stay
capture_without_delete(db) ==
    [db EXCEPT !.pre_sync_calling_snapshot =
        @ \cup
        {[id |-> j.ca.id,
          calling_org_name |-> j.o.name,
          calling_title |-> j.c.title,
          member_church_id |-> j.m.church_id,
          member_first_name |-> j.m.first_name,
          member_last_name |-> j.m.last_name,
          sustained_date |-> j.ca.sustained_date,
          set_apart_date |-> j.ca.set_apart_date,
          is_active |-> j.ca.is_active,
          expected_release_date |-> j.ca.expected_release_date,
          release_notes |-> j.ca.release_notes] :
         j \in {k \in AssignmentJoin(db) :
                   k.ca.is_active /\ NotNull(k.m.church_id)}}]

capture_pre_sync_snapshot(db) ==
    [db EXCEPT !.pre_sync_calling_snapshot =
        {[id |-> j.ca.id,
          calling_org_name |-> j.o.name,
          calling_title |-> j.c.title,
          member_church_id |-> j.m.church_id,
          member_first_name |-> j.m.first_name,
          member_last_name |-> j.m.last_name,
          sustained_date |-> j.ca.sustained_date,
          set_apart_date |-> j.ca.set_apart_date,
          is_active |-> j.ca.is_active,
          expected_release_date |-> j.ca.expected_release_date,
          release_notes |-> j.ca.release_notes] :
         j \in {k \in AssignmentJoin(db) :
                   k.ca.is_active /\ NotNull(k.m.church_id)}}]

(***************************************************************************)
(* hard_refresh_synced_tables: four DELETEs, children first.  The cached   *)
(* ids that point at a deleted calling or organization are set to NULL by  *)
(* their foreign keys ("references that were set to NULL during hard       *)
(* refresh").                                                              *)
(***************************************************************************)
\* a refresh that empties the snapshot table with the synced ones
refresh_drops_snapshot(db) ==
    [db EXCEPT !.calling_assignments = {}, !.youth_interviews = {},
               !.callings = {}, !.organizations = {},
               !.pre_sync_calling_snapshot = {}]

hard_refresh_synced_tables(db) ==
    [db EXCEPT !.calling_assignments = {},
               !.youth_interviews = {},
               !.callings = {},
               !.organizations = {},
               !.calling_changes = {[cc EXCEPT !.calling_id = NULL] : cc \in @},
               !.bishopric_stewardships =
                   {[bs EXCEPT !.organization_id = NULL] : bs \in @}]

\* the DELETE statements of the refresh, parents before children
parents_first ==
    <<"organizations", "callings", "youth_interviews", "calling_assignments">>

\* the DELETE statements of hard_refresh_synced_tables, in program order
refresh_statements ==
    <<"calling_assignments", "youth_interviews", "callings", "organizations">>

\* a row that stays refers to a row of the table ("to respect foreign keys")
fk_violation(db, table) ==
    \/ /\ table = "callings"
       /\ \E a \in db.calling_assignments : HasId(db.callings, a.calling_id)
    \/ /\ table = "organizations"
       /\ \E c \in db.callings : HasId(db.organizations, c.organization_id)

\* DELETE FROM table; the cached ids that point into it are set to NULL
delete_from(db, table) ==
    CASE table = "calling_assignments" -> [db EXCEPT !.calling_assignments = {}]
      [] table = "youth_interviews" -> [db EXCEPT !.youth_interviews = {}]
      [] table = "callings" ->
            [db EXCEPT !.callings = {},
                       !.calling_changes = {[cc EXCEPT !.calling_id = NULL] : cc \in @}]
      [] table = "organizations" ->
            [db EXCEPT !.organizations = {},
                       !.bishopric_stewardships =
                           {[bs EXCEPT !.organization_id = NULL] : bs \in @}]

(***************************************************************************)
(* sync_organizations_and_callings: the position -> organization lookup.   *)
(***************************************************************************)
GENERIC_SUBORG_NAMES == {"Teachers", "Activities", "Service", "Ministering"}

skip_keywords ==
    <<"Class Presidency", "Class Adult Leaders", "Additional Callings",
      "Quorum Presidency", "Quorum Adult Leaders">>

\* no node is a leadership roster
no_skip_keyword(org_name) == FALSE

\* any(keyword in org_name for keyword in skip_keywords)
has_skip_keyword(org_name) ==
    \E i \in 1..Len(skip_keywords) : Contains(org_name, skip_keywords[i])

\* org.get('name', 'Unknown')
org_name_of(org) == IF NotNull(org.name) THEN Val(org.name) ELSE "Unknown"

SeqToSet(q) == {q[i] : i \in 1..Len(q)}

\* map[k] = v for every k of keys
MapPutAll(map, keys, v) ==
    [k \in (DOMAIN map) \cup SeqToSet(keys) |->
        IF k \in SeqToSet(keys) THEN v ELSE map[k]]

RECURSIVE traverse_org_hierarchy(_, _, _)
RECURSIVE traverse_child_orgs(_, _, _, _)
traverse_org_hierarchy(map, org, parent_org_name) ==
    LET org_name == org_name_of(org)
        effective_org_name ==
            IF TruthyStr(parent_org_name) /\ has_skip_keyword(org_name)
            THEN Val(parent_org_name)
            ELSE IF TruthyStr(parent_org_name) /\ org_name \in GENERIC_SUBORG_NAMES
            THEN Val(parent_org_name) \o " - " \o org_name
            ELSE org_name
    IN  traverse_child_orgs(MapPutAll(map, org.positions, effective_org_name),
                            org.childOrgs, 1, Some(org_name))
traverse_child_orgs(map, orgs, i, parent_org_name) ==
    IF i > Len(orgs) THEN map
    ELSE traverse_child_orgs(traverse_org_hierarchy(map, orgs[i], parent_org_name),
                             orgs, i + 1, parent_org_name)

\* for org in organizations: traverse_org_hierarchy(org)
position_to_org_map(organizations) ==
    traverse_child_orgs(<<>>, organizations, 1, NULL)

ORG_TYPE_NAMES ==
    << <<"BISHOPRIC", "Bishopric">>, <<"ELDERS_QUORUM", "Elders Quorum">>,
       <<"RELIEF_SOCIETY", "Relief Society">>, <<"YOUNG_MEN", "Young Men">>,
       <<"YOUNG_WOMEN", "Young Women">>, <<"PRIMARY", "Primary">>,
       <<"SUNDAY_SCHOOL", "Sunday School">>, <<"HIGH_PRIEST", "High Priests">>,
       <<"MUSIC", "Music">> >>

POSITION_NAME_TO_ORG ==
    << <<"Bishop", "Bishopric">>, <<"Ward Clerk", "Bishopric">>,
       <<"Ward Executive Secretary", "Bishopric">>,
       <<"Assistant Ward Clerk", "Bishopric">>, <<"Assistant Clerk", "Bishopric">>,
       <<"Deacons Quorum", "Young Men">>, <<"Teachers Quorum", "Young Men">>,
       <<"Priests Quorum", "Young Men">>, <<"Aaronic Priesthood", "Young Men">>,
       <<"Nursery", "Primary">>,
       <<"Music", "Music">>, <<"Choir", "Music">>, <<"Organist", "Music">>,
       <<"Pianist", "Music">>, <<"Accompanist", "Music">>,
       <<"Ward Mission", "Other">>, <<"Ward Missionary", "Other">>,
       <<"Temple and Family History", "Other">>,
       <<"Activities Committee", "Other">>,
       <<"Building Representative", "Other">> >>

\* no title is a top-leadership title
no_patterns == <<>>

bishopric_patterns ==
    <<"bishop", "ward clerk", "ward executive secretary", "ward assistant">>

\* the first entry of an ordered table whose key satisfies Hit, 0 when none
FirstMatch(table, Hit(_)) ==
    LET hits == {i \in 1..Len(table) : Hit(table[i][1])}
    IN  IF hits = {} THEN 0 ELSE CHOOSE i \in hits : \A j \in hits : i <= j

position_name_of(position) ==
    IF NotNull(position.name) THEN Val(position.name) ELSE "Unknown Position"
\* a position's type is never read
type_ignored(position) == ""

position_type_of(position) ==
    IF NotNull(position.type) THEN Val(position.type) ELSE ""

\* "Determine organization name" for one position
position_org_name(position, map) ==
    LET position_name == position_name_of(position)
        position_type == position_type_of(position)
        name_lower == lower(position_name)
        type_upper == upper(position_type)
        looked_up ==
            IF TruthyStr(position.uuid) /\ Val(position.uuid) \in DOMAIN map
            THEN map[Val(position.uuid)] ELSE ""
        overridden ==
            IF \E i \in 1..Len(bishopric_patterns) :
                   Contains(name_lower, bishopric_patterns[i])
            THEN "Bishopric" ELSE looked_up
        TypeHit(org_type) == Contains(type_upper, org_type)
        NameHit(pattern) == Contains(name_lower, lower(pattern))
        t == FirstMatch(ORG_TYPE_NAMES, TypeHit)
        n == FirstMatch(POSITION_NAME_TO_ORG, NameHit)
    IN  IF overridden # "" THEN overridden
        ELSE IF t # 0 THEN ORG_TYPE_NAMES[t][2]
        ELSE IF n # 0 THEN POSITION_NAME_TO_ORG[n][2]
        ELSE "Other"


(***************************************************************************)
(* Display order of a calling, by its title (first matching rule wins).    *)
(***************************************************************************)
\* every title is an "other position"
title_unclassified(title) == 50

get_calling_display_order(title) ==
    LET t == lower(title)
        has(w) == Contains(t, w)
    IN  IF has("bishop") /\ ~has("counselor") THEN 1
        ELSE IF has("president") /\ ~has("counselor") THEN 1
        ELSE IF has("first counselor") THEN 2
        ELSE IF has("second counselor") THEN 3
        ELSE IF has("1st counselor") THEN 2
        ELSE IF has("2nd counselor") THEN 3
        ELSE IF has("leader") /\ ~has("adult") THEN 5
        ELSE IF has("secretary") /\ has("executive") THEN 10
        ELSE IF has("secretary") THEN 11
        ELSE IF has("clerk") /\ ~has("assistant") THEN 12
        ELSE IF has("assistant") /\ has("clerk") THEN 13
        ELSE IF has("instructor") THEN 20
        ELSE IF has("teacher") THEN 21
        ELSE IF has("coordinator") THEN 30
        ELSE IF has("committee") THEN 31
        ELSE IF has("advisor") \/ has("adviser") THEN 40
        ELSE IF has("specialist") THEN 41
        ELSE IF has("chorister") \/ has("music chairman") THEN 25
        ELSE IF has("organist") \/ has("pianist") THEN 26
        ELSE IF has("choir") /\ has("director") THEN 24
        ELSE IF has("choir") THEN 27
        ELSE 50

(***************************************************************************)
(* Display order of an organization, by its name.                          *)
(***************************************************************************)
org_order_by_name ==
    << <<"Bishopric", 1>>, <<"Elders Quorum", 2>>, <<"Relief Society", 3>>,
       <<"Young Men", 4>>, <<"Young Women", 5>>,
       <<"Aaronic Priesthood Quorums", 6>>, <<"Primary", 7>>,
       <<"Sunday School", 8>>, <<"Music", 9>>,
       <<"Temple and Family History", 10>>, <<"Ward Missionaries", 11>>,
       <<"Other", 12>>, <<"Other Callings", 12>> >>

org_order_by_substring ==
    << <<"presidency", 1>>,
       <<"priests quorum", 10>>, <<"teachers quorum", 11>>,
       <<"deacons quorum", 12>>,
       <<"young women 16-18", 10>>, <<"young women 14-15", 11>>,
       <<"young women 12-15", 12>>, <<"young women 12-13", 13>>,
       <<"young women 12-18", 20>>,
       <<"valiant 10", 10>>, <<"valiant 9", 14>>, <<"valiant 8", 16>>,
       <<"valiant 7", 18>>,
       <<"ctr 6", 20>>, <<"ctr 5", 22>>, <<"ctr 4", 24>>,
       <<"sunbeam", 30>>, <<"nursery", 40>>,
       <<"course 17", 10>>, <<"gospel doctrine", 10>>, <<"course 16", 12>>,
       <<"course 15", 14>>, <<"course 14", 16>>, <<"course 13", 18>>,
       <<"course 12", 20>>, <<"course 11", 22>>,
       <<"youth sunday school", 40>>,
       <<"activities", 90>>, <<"additional", 99>>,
       <<"teachers", 50>>, <<"service", 51>>, <<"ministering", 52>>,
       <<"unassigned", 95>>, <<"resource", 95>> >>

get_org_display_order(name) ==
    LET name_lower == lower(name)
        Same(k) == name = k
        Sub(k) == Contains(name_lower, k)
        e == FirstMatch(org_order_by_name, Same)
        u == FirstMatch(org_order_by_substring, Sub)
    IN  IF e # 0 THEN org_order_by_name[e][2]
        ELSE IF StartsWith(name_lower, "stake") \/ name = "High Council"
                \/ name = "Patriarch" THEN 80
        ELSE IF name = "High Priests Quorum" THEN 81
        ELSE IF u # 0 THEN org_order_by_substring[u][2]
        ELSE 50

(***************************************************************************)
(* get_or_create_org / get_or_create_calling of the rebuild.  d is the     *)
(* record of tables; the result is [d, id].                                *)
(***************************************************************************)
\* an organization row is inserted without looking for the name
create_org(d, name, parent_id) ==
    [d |-> [d EXCEPT !.organizations =
                @ \cup {[id |-> d.next_id, name |-> name, parent_org_id |-> parent_id,
                         display_order |-> 99]},
             !.next_id = @ + 1],
     id |-> d.next_id]

get_or_create_org(d, name, parent_id) ==
    LET hit == {o \in d.organizations : o.name = name}
        row == [id |-> d.next_id, name |-> name, parent_org_id |-> parent_id,
                display_order |-> get_org_display_order(name)]
    IN  IF hit # {}
        THEN [d |-> d, id |-> (CHOOSE o \in hit : TRUE).id]
        ELSE [d |-> [d EXCEPT !.organizations = @ \cup {row},
                              !.next_id = @ + 1],
              id |-> d.next_id]

\* a calling row is inserted without looking for the title
create_calling(d, org_id, title) ==
    [d |-> [d EXCEPT !.callings =
                @ \cup {[id |-> d.next_id, organization_id |-> org_id,
                         title |-> title, requires_setting_apart |-> TRUE,
                         display_order |-> get_calling_display_order(title)]},
             !.next_id = @ + 1],
     id |-> d.next_id]

get_or_create_calling(d, org_id, title) ==
    LET display_order == get_calling_display_order(title)
        hit == {c \in d.callings : c.organization_id = org_id /\ c.title = title}
        old == CHOOSE c \in hit : TRUE
        row == [id |-> d.next_id, organization_id |-> org_id, title |-> title,
                requires_setting_apart |-> TRUE, display_order |-> display_order]
    IN  IF hit # {}
        THEN [d |-> [d EXCEPT !.callings =
                        (@ \ {old}) \cup {[old EXCEPT !.display_order = display_order]}],
              id |-> old.id]
        ELSE [d |-> [d EXCEPT !.callings = @ \cup {row}, !.next_id = @ + 1],
              id |-> d.next_id]

\* no organization is forced to the top level
no_top_level_orgs == {}

TOP_LEVEL_ORGS == {"Music", "Sunday School", "Other"}

RECURSIVE create_orgs_recursive(_, _, _, _)
RECURSIVE create_child_orgs(_, _, _, _, _)
create_orgs_recursive(d, org, parent_db_id, parent_org_name) ==
    LET org_name == org_name_of(org)
        effective_org_name ==
            IF TruthyStr(parent_org_name) /\ org_name \in GENERIC_SUBORG_NAMES
            THEN Val(parent_org_name) \o " - " \o org_name
            ELSE org_name
        effective_parent_id ==
            IF org_name \in TOP_LEVEL_ORGS THEN NULL ELSE parent_db_id
        r == get_or_create_org(d, effective_org_name, effective_parent_id)
    IN  IF has_skip_keyword(org_name)
        THEN create_child_orgs(d, org.childOrgs, 1, parent_db_id, parent_org_name)
        ELSE Do(r, LAMBDA o : create_child_orgs(o.d, org.childOrgs, 1, Some(o.id),
                                                Some(org_name)))
create_child_orgs(d, orgs, i, parent_db_id, parent_org_name) ==
    IF i > Len(orgs) THEN d
    ELSE Do(create_orgs_recursive(d, orgs[i], parent_db_id, parent_org_name),
            LAMBDA d1 : create_child_orgs(d1, orgs, i + 1, parent_db_id,
                                          parent_org_name))


(***************************************************************************)
(* The assignment of one position of one member (the upsert at the end of  *)
(* the position loop).                                                     *)
(***************************************************************************)
\* no unit filter on positions
position_any_unit(position, home_unit) == TRUE

\* the position passes "home unit OR stake positions"
position_in_scope(position, home_unit) ==
    LET unit_name == IF NotNull(position.unitName) THEN Val(position.unitName) ELSE ""
        is_stake_position == unit_name # "" /\ Contains(lower(unit_name), "stake")
        skip == /\ NotNull(home_unit) /\ Val(home_unit) # 0
                /\ NotNull(position.unitNumber) /\ Val(position.unitNumber) # 0
                /\ position.unitNumber # home_unit
                /\ ~is_stake_position
    IN  ~skip

\* sustained_date: the parsed activeDate, NULL when missing or unparseable
position_sustained_date(position) ==
    IF TruthyStr(position.activeDate)
    THEN strptime_ymd(Val(position.activeDate)) ELSE NULL

\* the set-apart date is the sustained date whatever the set-apart flag says
upsert_assignment_any_flag(d, calling_id, member_db_id, sustained_date, set_apart) ==
    LET hit == {a \in d.calling_assignments :
                   a.calling_id = calling_id /\ a.member_id = member_db_id}
        old == CHOOSE a \in hit : TRUE
        new == [old EXCEPT
                   !.is_active = TRUE,
                   !.assigned_date = COALESCE(sustained_date, @),
                   !.sustained_date = COALESCE(sustained_date, @),
                   !.set_apart_date = COALESCE(@, sustained_date)]
        row == [id |-> d.next_id, calling_id |-> calling_id,
                member_id |-> member_db_id, is_active |-> TRUE,
                assigned_date |-> COALESCE(sustained_date, strptime_ymd(today)),
                sustained_date |-> sustained_date,
                set_apart_date |-> sustained_date,
                expected_release_date |-> NULL, release_notes |-> NULL]
    IN  IF hit # {}
        THEN [d EXCEPT !.calling_assignments = (@ \ {old}) \cup {new}]
        ELSE [d EXCEPT !.calling_assignments = @ \cup {row}, !.next_id = @ + 1]

\* an assignment row is inserted without looking for the pair
insert_assignment(d, calling_id, member_db_id, sustained_date, set_apart) ==
    [d EXCEPT !.calling_assignments =
                  @ \cup {[id |-> d.next_id, calling_id |-> calling_id,
                           member_id |-> member_db_id, is_active |-> TRUE,
                           assigned_date |-> sustained_date,
                           sustained_date |-> sustained_date,
                           set_apart_date |-> NULL,
                           expected_release_date |-> NULL, release_notes |-> NULL]},
              !.next_id = @ + 1]

upsert_assignment(d, calling_id, member_db_id, sustained_date, set_apart) ==
    LET hit == {a \in d.calling_assignments :
                   a.calling_id = calling_id /\ a.member_id = member_db_id}
        old == CHOOSE a \in hit : TRUE
        new == [old EXCEPT
                   !.is_active = TRUE,
                   !.assigned_date = COALESCE(sustained_date, @),
                   !.sustained_date = COALESCE(sustained_date, @),
                   !.set_apart_date =
                       IF set_apart THEN COALESCE(@, sustained_date) ELSE @]
        row == [id |-> d.next_id, calling_id |-> calling_id,
                member_id |-> member_db_id, is_active |-> TRUE,
                assigned_date |-> COALESCE(sustained_date, strptime_ymd(today)),
                sustained_date |-> sustained_date,
                set_apart_date |-> IF set_apart THEN sustained_date ELSE NULL,
                expected_release_date |-> NULL, release_notes |-> NULL]
    IN  IF hit # {}
        THEN [d EXCEPT !.calling_assignments = (@ \ {old}) \cup {new}]
        ELSE [d EXCEPT !.calling_assignments = @ \cup {row}, !.next_id = @ + 1]

sync_position(d, member_db_id, position, map, home_unit) ==
    IF ~position_in_scope(position, home_unit) THEN d
    ELSE Do(get_or_create_org(d, position_org_name(position, map), NULL),
            LAMBDA o :
            Do(get_or_create_calling(o.d, o.id, position_name_of(position)),
               LAMBDA c : upsert_assignment(c.d, c.id, member_db_id,
                                            position_sustained_date(position),
                                            position.setApart)))

RECURSIVE sync_positions(_, _, _, _, _, _)
sync_positions(d, member_db_id, positions, i, map, home_unit) ==
    IF i > Len(positions) THEN d
    ELSE Do(sync_position(d, member_db_id, positions[i], map, home_unit),
            LAMBDA d1 : sync_positions(d1, member_db_id, positions, i + 1, map,
                                       home_unit))

\* "for member in household.get('members', [])" of the position loop
RECURSIVE sync_member_positions(_, _, _, _, _, _)
sync_member_positions(d, ms, i, member_uuid_map, map, home_unit) ==
    IF i > Len(ms) THEN d
    ELSE LET known == TruthyStr(ms[i].uuid) /\ Val(ms[i].uuid) \in member_uuid_map
             d1 == IF known
                   THEN sync_positions(d, Val(ms[i].uuid), ms[i].positions, 1,
                                       map, home_unit)
                   ELSE d
         IN  Do(d1, LAMBDA d2 : sync_member_positions(d2, ms, i + 1, member_uuid_map,
                                                      map, home_unit))

RECURSIVE sync_household_positions(_, _, _, _, _, _)
sync_household_positions(d, hs, i, member_uuid_map, map, home_unit) ==
    IF i > Len(hs) THEN d
    ELSE Do(sync_member_positions(d, hs[i].members, 1, member_uuid_map, map, home_unit),
            LAMBDA d1 : sync_household_positions(d1, hs, i + 1, member_uuid_map,
                                                 map, home_unit))

(***************************************************************************)
(* sync_standard_callings: the seed catalog (ward_callings_seed.json) and  *)
(* the seeding pass.                                                       *)
(***************************************************************************)
seed_data ==
    << [name |-> "Bishopric", display_order |-> 1,
        callings |-> <<"Bishop", "Ward Clerk">>],
       [name |-> "Sunday School", display_order |-> 7,
        callings |-> <<"Sunday School President">>],
       [name |-> "Ward Missionaries", display_order |-> 11,
        callings |-> <<"Ward Mission Leader">>] >>

\* a seeding that finds an organization leaves its display order alone
seed_org_untouched(d, name, display_order) ==
    LET hit == {o \in d.organizations : o.name = name}
    IN  IF hit # {}
        THEN [d |-> d, id |-> (CHOOSE o \in hit : TRUE).id]
        ELSE [d |-> [d EXCEPT !.organizations =
                        @ \cup {[id |-> d.next_id, name |-> name,
                                 parent_org_id |-> NULL,
                                 display_order |-> display_order]},
                     !.next_id = @ + 1],
              id |-> d.next_id]

seed_get_or_create_org(d, name, display_order) ==
    LET hit == {o \in d.organizations : o.name = name}
        old == CHOOSE o \in hit : TRUE
        row == [id |-> d.next_id, name |-> name, parent_org_id |-> NULL,
                display_order |-> display_order]
    IN  IF hit # {}
        THEN [d |-> [d EXCEPT !.organizations =
                        (@ \ {old}) \cup {[old EXCEPT !.display_order = display_order]}],
              id |-> old.id]
        ELSE [d |-> [d EXCEPT !.organizations = @ \cup {row}, !.next_id = @ + 1],
              id |-> d.next_id]

RECURSIVE seed_callings(_, _, _, _)
seed_callings(d, org_id, titles, i) ==
    IF i > Len(titles) THEN d
    ELSE Do(get_or_create_calling(d, org_id, titles[i]),
            LAMBDA c : seed_callings(c.d, org_id, titles, i + 1))

RECURSIVE seed_orgs(_, _, _)
seed_orgs(d, orgs, i) ==
    IF i > Len(orgs) THEN d
    ELSE Do(seed_get_or_create_org(d, orgs[i].name, orgs[i].display_order),
            LAMBDA o :
            Do(seed_callings(o.d, o.id, orgs[i].callings, 1),
               LAMBDA d1 : seed_orgs(d1, orgs, i + 1)))

\* a seeding that starts from empty organization and calling tables
reseed_from_scratch(db) ==
    seed_orgs([db EXCEPT !.organizations = {}, !.callings = {}], seed_data, 1)

sync_standard_callings(db) == seed_orgs(db, seed_data, 1)

(***************************************************************************)
(* sync_organizations_and_callings: the lookup walk, the materialization   *)
(* walk, the position loop, and the seeding pass it ends with.             *)
(***************************************************************************)
sync_organizations_and_callings(db, data, member_uuid_map, home_unit) ==
    LET map == position_to_org_map(data.organizations)
        hs == SelectHouseholds(data.households, 1, home_unit)
    IN  Do(create_child_orgs(db, data.organizations, 1, NULL, NULL),
           LAMBDA d1 :
           Do(sync_household_positions(d1, hs, 1, member_uuid_map, map, home_unit),
              LAMBDA d2 : sync_standard_callings(d2)))

(***************************************************************************)
(* sync_youth_interviews: DELETE, then one row per youth of a bishop's or  *)
(* counselor's interview.                                                  *)
(***************************************************************************)
interview_type_of(itype) ==
    IF Contains(itype, "BISHOP_YOUTH_INTERVIEW") THEN "BYI"
    ELSE IF Contains(itype, "COUNSELOR_YOUTH_INTERVIEW") THEN "BCYI"
    ELSE ""

\* INSERT ... ON CONFLICT (member_id, interview_type) DO UPDATE
interview_upsert(rows, row) ==
    {r \in rows : ~(r.member_id = row.member_id
                    /\ r.interview_type = row.interview_type)} \cup {row}

RECURSIVE sync_interview_members(_, _, _, _, _)
sync_interview_members(rows, iv, ms, i, member_uuid_map) ==
    IF i > Len(ms) THEN rows
    ELSE LET row == [member_id |-> Val(ms[i]),
                     interview_type |-> interview_type_of(iv.type),
                     api_interview_type |-> iv.type, is_due |-> TRUE]
             known == TruthyStr(ms[i]) /\ Val(ms[i]) \in member_uuid_map
         IN  sync_interview_members(
                 IF known THEN interview_upsert(rows, row) ELSE rows,
                 iv, ms, i + 1, member_uuid_map)

RECURSIVE sync_interviews(_, _, _, _)
sync_interviews(rows, ivs, i, member_uuid_map) ==
    IF i > Len(ivs) THEN rows
    ELSE sync_interviews(
             IF interview_type_of(ivs[i].type) = "" THEN rows
             ELSE sync_interview_members(rows, ivs[i], ivs[i].members, 1,
                                         member_uuid_map),
             ivs, i + 1, member_uuid_map)

sync_youth_interviews(db, data, member_uuid_map) ==
    [db EXCEPT !.youth_interviews =
        sync_interviews({}, data.actionInterviews, 1, member_uuid_map)]


(***************************************************************************)
(* relink_cached_ids: the cached ids of the application's tables, again    *)
(* resolved through the natural keys.                                      *)
(***************************************************************************)
\* callings with the given title, in whatever organization
callings_titled(db, org_name, title) == {c \in db.callings : Some(c.title) = title}

\* callings JOIN organizations with the given organization name and title
CallingsNamed(db, org_name, title) ==
    {c \in db.callings :
        /\ Some(c.title) = title
        /\ \E o \in db.organizations :
              c.organization_id = o.id /\ Some(o.name) = org_name}

MembersWithChurchId(db, church_id) ==
    {m \in db.members : NotNull(church_id) /\ m.church_id = church_id}

\* a re-link that leaves the cached member ids as they are
relink_nothing(db, old_id, church_id) == old_id

\* UPDATE t SET member_id = m.id FROM members m WHERE m.church_id = t.<key>
relink_member(db, old_id, church_id) ==
    LET ms == MembersWithChurchId(db, church_id)
    IN  IF ms = {} THEN old_id ELSE Some((CHOOSE m \in ms : TRUE).id)

relink_cached_ids(db) ==
    LET calling_of(cc) ==
            LET cs == CallingsNamed(db, cc.calling_org_name, cc.calling_title)
            IN  IF cs = {} THEN cc.calling_id ELSE Some((CHOOSE c \in cs : TRUE).id)
        org_of(bs) ==
            LET os == {o \in db.organizations : Some(o.name) = bs.organization_name}
            IN  IF os = {} THEN bs.organization_id
                ELSE Some((CHOOSE o \in os : TRUE).id)
        by_church(rows) ==
            {[r EXCEPT !.member_id = relink_member(db, @, r.member_church_id)] :
             r \in rows}
    IN  [db EXCEPT
           !.calling_changes =
               {[cc EXCEPT
                   !.calling_id = calling_of(cc),
                   !.new_member_id = relink_member(db, @, cc.new_member_church_id),
                   !.current_member_id =
                       relink_member(db, @, cc.current_member_church_id)] :
                cc \in @},
           !.calling_considerations = by_church(@),
           !.tasks = by_church(@),
           !.member_calling_needs = by_church(@),
           !.bishopric_stewardships =
               {[bs EXCEPT !.organization_id = org_of(bs)] : bs \in @}]

(***************************************************************************)
(* restore_user_entered_data: expected_release_date and release_notes,     *)
(* copied back from the snapshot row of the same natural key.              *)
(***************************************************************************)
\* the join without the organization name
SnapshotRowsTitled(db, j) ==
    {pss \in db.pre_sync_calling_snapshot :
        /\ NotNull(pss.member_church_id)
        /\ j.m.church_id = pss.member_church_id
        /\ j.c.title = pss.calling_title
        /\ (NotNull(pss.expected_release_date) \/ NotNull(pss.release_notes))}

\* the snapshot rows the UPDATE joins to the assignment of join row j
SnapshotRowsFor(db, j) ==
    {pss \in db.pre_sync_calling_snapshot :
        /\ NotNull(pss.member_church_id)
        /\ j.m.church_id = pss.member_church_id
        /\ j.o.name = pss.calling_org_name
        /\ j.c.title = pss.calling_title
        /\ (NotNull(pss.expected_release_date) \/ NotNull(pss.release_notes))}

restore_nothing(db) == db

restore_user_entered_data(db) ==
    LET touched == {j \in AssignmentJoin(db) : SnapshotRowsFor(db, j) # {}}
        restored(j) ==
            LET pss == CHOOSE r \in SnapshotRowsFor(db, j) : TRUE
            IN  [j.ca EXCEPT !.expected_release_date = pss.expected_release_date,
                             !.release_notes = pss.release_notes]
    IN  [db EXCEPT !.calling_assignments =
            (@ \ {j.ca : j \in touched}) \cup {restored(j) : j \in touched}]


(***************************************************************************)
(* create_in_flight_calling_change: the calling_change row and its tasks.  *)
(* a is [calling_id, calling_org_name, calling_title, new_member_id,       *)
(* new_member_church_id, current_member_id, current_member_church_id,      *)
(* set_apart_date, is_release].                                            *)
(***************************************************************************)
Task(id, change_id, task_type, member_id, church_id, notes) ==
    [id |-> id, calling_change_id |-> change_id, task_type |-> task_type,
     member_id |-> member_id, member_church_id |-> church_id,
     status |-> "pending", notes |-> notes]

create_in_flight_calling_change(db, a) ==
    LET id == db.next_id
        change ==
            [id |-> id,
             calling_id |-> Some(a.calling_id),
             calling_org_name |-> Some(a.calling_org_name),
             calling_title |-> Some(a.calling_title),
             new_member_id |-> a.new_member_id,
             new_member_church_id |-> a.new_member_church_id,
             current_member_id |-> a.current_member_id,
             current_member_church_id |-> a.current_member_church_id,
             status |-> "in_flight", source |-> "auto_detected"]
        org == Some(a.calling_org_name)
        release_tasks ==
            {Task(id + 1, id, "notify_organization", a.current_member_id,
                  a.current_member_church_id, org)}
        set_apart_tasks ==
            {Task(id + 1, id, "set_apart", a.new_member_id,
                  a.new_member_church_id, NULL),
             Task(id + 2, id, "record_set_apart", a.new_member_id,
                  a.new_member_church_id, NULL),
             Task(id + 3, id, "notify_organization", a.new_member_id,
                  a.new_member_church_id, org)}
        notify_only ==
            {Task(id + 1, id, "notify_organization", a.new_member_id,
                  a.new_member_church_id, org)}
        new_tasks ==
            IF a.is_release THEN release_tasks
            ELSE IF IsNull(a.set_apart_date) THEN set_apart_tasks
            ELSE notify_only
    IN  [db EXCEPT !.calling_changes = @ \cup {change},
                   !.tasks = @ \cup new_tasks,
                   !.next_id = @ + 1 + Cardinality(new_tasks)]

(***************************************************************************)
(* detect_in_flight_callings: the two queries run against the state the    *)
(* function finds; their rows are then materialized one by one.            *)
(***************************************************************************)
\* a calling_change with status != 'completed' names this triple
no_open_change(db, org_name, title, church_id, as_new) == FALSE

OpenChangeFor(db, org_name, title, church_id, as_new) ==
    \E cc \in db.calling_changes :
        /\ cc.calling_org_name = Some(org_name)
        /\ cc.calling_title = Some(title)
        /\ NotNull(church_id)
        /\ (IF as_new THEN cc.new_member_church_id
                      ELSE cc.current_member_church_id) = church_id
        /\ cc.status # "completed"

snapshot_ignored(db, org_name, title, church_id) == FALSE

InSnapshot(db, org_name, title, church_id) ==
    \E pss \in db.pre_sync_calling_snapshot :
        /\ pss.calling_org_name = org_name
        /\ pss.calling_title = title
        /\ NotNull(church_id)
        /\ pss.member_church_id = church_id

\* the first query without its snapshot test
new_rows_not_tracked(db) ==
    {j \in AssignmentJoin(db) :
        /\ j.ca.is_active
        /\ NotNull(j.m.church_id)
        /\ ~OpenChangeFor(db, j.o.name, j.c.title, j.m.church_id, TRUE)}

\* the first query: new assignments
new_assignment_rows(db) ==
    {j \in AssignmentJoin(db) :
        /\ j.ca.is_active
        /\ NotNull(j.m.church_id)
        /\ ~InSnapshot(db, j.o.name, j.c.title, j.m.church_id)
        /\ ~OpenChangeFor(db, j.o.name, j.c.title, j.m.church_id, TRUE)}

\* an active assignment with this natural key exists
ActiveAssignmentFor(db, org_name, title, church_id) ==
    \E j \in AssignmentJoin(db) :
        /\ j.o.name = org_name
        /\ j.c.title = title
        /\ NotNull(church_id)
        /\ j.m.church_id = church_id
        /\ j.ca.is_active

\* x LEFT JOIN rows: the matching rows, or one NULL
LeftJoin(rows) == IF rows = {} THEN {NULL} ELSE {Some(r) : r \in rows}

\* the second query: releases; calling_id and member_id may be NULL
release_rows(db) ==
    LET candidates ==
            {pss \in db.pre_sync_calling_snapshot :
                /\ pss.is_active
                /\ ~ActiveAssignmentFor(db, pss.calling_org_name,
                                        pss.calling_title, pss.member_church_id)
                /\ ~OpenChangeFor(db, pss.calling_org_name, pss.calling_title,
                                  pss.member_church_id, FALSE)}
        callings_of(pss) ==
            LeftJoin({c.id : c \in CallingsNamed(db, Some(pss.calling_org_name),
                                                 Some(pss.calling_title))})
        members_of(pss) ==
            LeftJoin({m.id : m \in MembersWithChurchId(db, pss.member_church_id)})
    IN  UNION {{[pss |-> pss, calling_id |-> c, member_id |-> m] :
                   <<c, m>> \in callings_of(pss) \X members_of(pss)} :
               pss \in candidates}

\* the rows of a query result in the order they are handled (by id)
\* keyed is a set of <<id, row>>
RECURSIVE InOrder(_)
InOrder(keyed) ==
    IF keyed = {} THEN <<>>
    ELSE LET p == CHOOSE x \in keyed : \A y \in keyed : x[1] <= y[1]
         IN  <<p[2]>> \o InOrder(keyed \ {p})

RECURSIVE materialize_new(_, _, _)
materialize_new(db, rows, i) ==
    IF i > Len(rows) THEN db
    ELSE LET j == rows[i]
             a == [calling_id |-> j.c.id,
                   calling_org_name |-> j.o.name,
                   calling_title |-> j.c.title,
                   new_member_id |-> Some(j.m.id),
                   new_member_church_id |-> j.m.church_id,
                   current_member_id |-> NULL,
                   current_member_church_id |-> NULL,
                   set_apart_date |-> j.ca.set_apart_date,
                   is_release |-> FALSE]
         IN  Do(create_in_flight_calling_change(db, a),
                LAMBDA d1 : materialize_new(d1, rows, i + 1))

materialize_nothing(db, rows, i) == db

RECURSIVE materialize_releases(_, _, _)
materialize_releases(db, rows, i) ==
    IF i > Len(rows) THEN db
    ELSE LET r == rows[i]
             a == [calling_id |-> Val(r.calling_id),
                   calling_org_name |-> r.pss.calling_org_name,
                   calling_title |-> r.pss.calling_title,
                   new_member_id |-> NULL,
                   new_member_church_id |-> NULL,
                   current_member_id |-> r.member_id,
                   current_member_church_id |-> r.pss.member_church_id,
                   set_apart_date |-> NULL,
                   is_release |-> TRUE]
         IN  Do(IF IsNull(r.calling_id) \/ IsNull(r.member_id) THEN db
                ELSE create_in_flight_calling_change(db, a),
                LAMBDA d1 : materialize_releases(d1, rows, i + 1))

detect_in_flight_callings(db) ==
    LET new_rows == InOrder({<<j.ca.id, j>> : j \in new_assignment_rows(db)})
        db1 == materialize_new(db, new_rows, 1)
        rel_rows == InOrder({<<r.pss.id, r>> : r \in release_rows(db1)})
    IN  materialize_releases(db1, rel_rows, 1)


(***************************************************************************)
(* The external directory: what client.get_user() and client.sync() can    *)
(* return.  One organization tree, three members, and the positions they   *)
(* hold in each payload.                                                   *)
(***************************************************************************)
OrgTree ==
    << ExtOrg(Some("High Priests Quorum"), <<"p-clerk">>, <<>>),
       ExtOrg(Some("Relief Society"), <<>>,
              << ExtOrg(Some("Teachers"), <<"p-rs-teacher">>, <<>>) >>),
       ExtOrg(Some("Elders Quorum"), <<>>,
              << ExtOrg(Some("Teachers"), <<"p-eq-teacher">>, <<>>) >>),
       ExtOrg(Some("Young Women"), <<>>,
              << ExtOrg(Some("Young Women 12-15"), <<>>,
                        << ExtOrg(Some("Young Women Class Presidency"),
                                  <<"p-yw-president">>, <<>>) >>) >>),
       ExtOrg(Some("Primary"), <<>>,
              << ExtOrg(Some("Music"), <<"p-primary-music">>, <<>>) >>) >>

\* OrgTree after the node 'Relief Society' was renamed
RenamedTree ==
    [i \in 1..Len(OrgTree) |->
        IF OrgTree[i].name = Some("Relief Society")
        THEN [OrgTree[i] EXCEPT !.name = Some("Womens Organization")]
        ELSE OrgTree[i]]

HomeUnit == Some(1)

WardClerk ==
    Position(Some("p-clerk"), Some("Ward Clerk"), Some("HIGH_PRIEST"),
             Some("Maple Ward"), HomeUnit, Some("2024-01-07"), TRUE)
RsTeacher ==
    Position(Some("p-rs-teacher"), Some("Teacher"), Some("RELIEF_SOCIETY"),
             Some("Maple Ward"), HomeUnit, Some("2025-03-02"), FALSE)
EqTeacher ==
    Position(Some("p-eq-teacher"), Some("Teacher"), Some("ELDERS_QUORUM"),
             Some("Maple Ward"), HomeUnit, Some("2025-02-30"), TRUE)
Pianist ==
    Position(NULL, Some("Ward Pianist"), NULL, Some("Maple Ward"), NULL, NULL, FALSE)

NoContact == [email |-> NULL, phone |-> NULL, birthDate |-> NULL,
              classifications |-> {}]

John(uuid, positions) ==
    ExtMember(Some(uuid),
              [listed |-> Some("Smith, John Q"), spoken |-> Some("John Smith"),
               given |-> Some("John")],
              [legacyCmisId |-> PyInt(101), id |-> NULL],
              [email |-> Some("john@example.org"), phone |-> NULL,
               birthDate |-> Some("1980-05-17"), classifications |-> {"HEAD"}],
              positions)
Mary(positions) ==
    ExtMember(Some("u-mary"),
              [listed |-> NULL, spoken |-> Some("Mary Jones"), given |-> NULL],
              [legacyCmisId |-> NULL, id |-> PyStr("102")],
              [NoContact EXCEPT !.birthDate = Some("--03-09"),
                                !.classifications = {"SPOUSE"}],
              positions)
Cher(positions) ==
    ExtMember(Some("u-cher"),
              [listed |-> NULL, spoken |-> Some("Cher"), given |-> Some("Cher")],
              [legacyCmisId |-> NULL, id |-> PyStr("7f3a-22")],
              NoContact, positions)

Household(members) ==
    << ExtHousehold(Some("h-1"), HomeUnit, NULL, Some("Smith"),
                    Some("1 Main St"), members) >>

Payload(households) ==
    [homeUnits |-> <<HomeUnit>>, households |-> households,
     organizations |-> OrgTree,
     actionInterviews |->
         << [type |-> "BISHOP_YOUTH_INTERVIEW", members |-> <<Some("u-mary")>>] >>]

Payloads ==
    [P1 |-> Payload(Household(<< John("u-john", <<WardClerk>>), Mary(<<RsTeacher>>),
                                 Cher(<<Pianist>>) >>)),
     P2 |-> Payload(Household(<< John("u-john", <<EqTeacher>>), Mary(<<>>) >>)),
     P3 |-> Payload(Household(<< Mary(<<>>), John("u-john-2", <<WardClerk>>) >>)),
     P4 |-> Payload(Household(<< John("u-john", <<WardClerk>>), Mary(<<>>),
                                 Cher(<<RsTeacher>>) >>)),
     P5 |-> [Payload(Household(<< John("u-john", <<WardClerk>>),
                                  Mary(<<RsTeacher>>), Cher(<<RsTeacher>>) >>))
                EXCEPT !.organizations = RenamedTree]]

\* the payloads the runs of Spec fetch; P4 and P5 are fetched in SpecLater
RunPayloads == {"P1", "P2", "P3"}
LaterPayloads == {"P1", "P2", "P4", "P5"}

\* home_units[0] if home_units else None
home_unit_of(payload) ==
    IF Len(payload.homeUnits) > 0 THEN payload.homeUnits[1] ELSE NULL


(***************************************************************************)
(* sync_from_lcr.py, sync_members.  A member record of the LCR member list *)
(* is [uuid, legacyCmisId, mrn, given, family, emails, phoneNumber, sex,   *)
(* age, household]: given and family are nameFormats.givenPreferredLocal   *)
(* and familyPreferredLocal, emails a list of strings, household NULL or   *)
(* Some([uuid, name, address]).                                            *)
(***************************************************************************)
LcrRecord(uuid, legacy_cmis_id, mrn, given, family, emails, phone, sex, age, hh) ==
    [uuid |-> uuid, legacyCmisId |-> legacy_cmis_id, mrn |-> mrn,
     given |-> given, family |-> family, emails |-> emails,
     phoneNumber |-> phone, sex |-> sex, age |-> age, household |-> hh]

\* first_or_none(seq)
first_or_none(seq) == IF Len(seq) = 0 THEN NULL ELSE Some(seq[1])

\* normalize_email_field(item), for an item that is None or a string
normalize_email_field(item) == IF ~TruthyStr(item) THEN NULL ELSE item

\* name_formats.get(k) or ''
lcr_name(o) == IF TruthyStr(o) THEN Val(o) ELSE ""

\* str(legacy_cmis_id or member_record.get('mrn') or '')
lcr_uuid_base(rec) ==
    IF NotNull(rec.legacyCmisId) /\ Val(rec.legacyCmisId) # 0
    THEN ToString(Val(rec.legacyCmisId))
    ELSE IF TruthyStr(rec.mrn) THEN Val(rec.mrn) ELSE ""

\* the id the record is stored under: its uuid, else one derived from the
\* legacy id or the MRN (uuid5 is a function of the name it is given)
lcr_person_uuid(rec) ==
    IF TruthyStr(rec.uuid) THEN rec.uuid
    ELSE IF lcr_uuid_base(rec) = "" THEN NULL
    ELSE Some("lcr-member-" \o lcr_uuid_base(rec))

\* the values the member statements are given
lcr_member_row(rec) ==
    [id |-> Val(lcr_person_uuid(rec)),
     household_id |-> IF NotNull(rec.household) THEN Some(Val(rec.household).uuid)
                      ELSE NULL,
     first_name |-> lcr_name(rec.given),
     last_name |-> lcr_name(rec.family),
     email |-> normalize_email_field(first_or_none(rec.emails)),
     phone |-> rec.phoneNumber,
     gender |-> rec.sex,
     age |-> rec.age,
     is_active |-> (NotNull(rec.age) /\ Val(rec.age) >= 18),
     church_id |-> rec.legacyCmisId]

\* the pre-merge is attempted: the record has a legacy id and both names,
\* and no row holds that church_id
premerge_attempted(ms, row) ==
    /\ NotNull(row.church_id) /\ row.first_name # "" /\ row.last_name # ""
    /\ ~ChurchIdTaken(ms, row.church_id)

\* SELECT id FROM members WHERE lower(first_name) = lower(%s)
\*   AND lower(last_name) = lower(%s) AND church_id IS NULL
name_matches(ms, row) ==
    {m \in ms : /\ lower(m.first_name) = lower(row.first_name)
                /\ lower(m.last_name) = lower(row.last_name)
                /\ IsNull(m.church_id)}

\* the rows LIMIT 1 may return: any one of the matches, or none
premerge_picks(ms, row) ==
    IF premerge_attempted(ms, row) /\ name_matches(ms, row) # {}
    THEN {Some(m.id) : m \in name_matches(ms, row)}
    ELSE {NULL}

\* sync_members without the pre-merge UPDATE
premerge_skipped(ms, row, pick) == ms

\* UPDATE members SET church_id = %s, x = COALESCE(%s, x), ... WHERE id = %s
premerge_update(ms, row, pick) ==
    IF IsNull(pick) THEN ms
    ELSE LET old == RowById(ms, Val(pick))
         IN  (ms \ {old}) \cup
             {[old EXCEPT !.church_id = row.church_id,
                          !.household_id = COALESCE(row.household_id, old.household_id),
                          !.email = COALESCE(row.email, old.email),
                          !.phone = COALESCE(row.phone, old.phone),
                          !.gender = COALESCE(row.gender, old.gender),
                          !.age = COALESCE(row.age, old.age),
                          !.is_active = row.is_active]}

(***************************************************************************)
(* INSERT INTO members ... ON CONFLICT (church_id) DO UPDATE SET            *)
(* x = EXCLUDED.x ... RETURNING id.  The row that holds the church_id is    *)
(* updated in place; otherwise the row is inserted, and a row that already  *)
(* has its id makes the statement raise.                                    *)
(***************************************************************************)
members_upsert_by_church_id(ms, row) ==
    LET hit == {m \in ms : NotNull(row.church_id) /\ m.church_id = row.church_id}
        old == CHOOSE m \in hit : TRUE
        new == [old EXCEPT !.household_id = row.household_id,
                           !.first_name = row.first_name,
                           !.last_name = row.last_name,
                           !.email = row.email,
                           !.phone = row.phone,
                           !.gender = row.gender,
                           !.age = row.age,
                           !.is_active = row.is_active]
    IN  IF hit # {}
        THEN [ok |-> TRUE, members |-> (ms \ hit) \cup {new}, id |-> Some(old.id)]
        ELSE IF HasId(ms, row.id)
        THEN [ok |-> FALSE, members |-> ms, id |-> NULL]
        ELSE [ok |-> TRUE, members |-> ms \cup {row}, id |-> Some(row.id)]

\* INSERT INTO households (id, household_name, address) ... ON CONFLICT (id)
lcr_household_upsert(hs, rec) ==
    IF NotNull(rec.household) /\ Val(rec.household).uuid # ""
    THEN households_upsert(hs, [id |-> Val(rec.household).uuid,
                                household_name |-> Val(rec.household).name,
                                address |-> Val(rec.household).address])
    ELSE hs

(***************************************************************************)
(* One turn of the loop over member_data.  st is [ok, members, households, *)
(* member_id_map]: the tables as the open transaction sees them.  pick is  *)
(* the row the pre-merge SELECT returned.                                  *)
(***************************************************************************)
lcr_sync_member(st, rec, pick) ==
    IF IsNull(lcr_person_uuid(rec)) THEN st
    ELSE LET row == lcr_member_row(rec)
             merged == premerge_update(st.members, row, pick)
             r == members_upsert_by_church_id(merged, row)
         IN  IF ~r.ok THEN [st EXCEPT !.ok = FALSE]
             ELSE [st EXCEPT
                      !.members = r.members,
                      !.households = lcr_household_upsert(@, rec),
                      !.member_id_map =
                          IF NotNull(rec.legacyCmisId)
                          THEN {e \in @ : e[1] # Val(rec.legacyCmisId)}
                               \cup {<<Val(rec.legacyCmisId), Val(r.id)>>}
                          ELSE @]


(***************************************************************************)
(* The state: the tables of the database, the run of main() in progress,   *)
(* and the history the properties are stated over.                         *)
(***************************************************************************)
VARIABLES
    members, households, organizations, callings, calling_assignments,
    youth_interviews, pre_sync_calling_snapshot, calling_changes, tasks,
    calling_considerations, member_calling_needs, bishopric_stewardships,
    next_id,            \* the next id a sequence hands out
    phase,              \* "idle", "running", "done" (the run has just finished),
                        \* "synced" (finished, and edited since), "failed", "aborted"
    pc,                 \* while running: the index in main_steps of the next step
    data,               \* the name of the payload client.sync() returned
    member_uuid_map,    \* the result of step 1
    runs, edits,        \* how many runs were started, how many edits were made
    done_steps,         \* history: the steps the current run has finished
    before,             \* history: the tables when the current run started
    pre_detect,         \* history: the tables when in-flight detection started
    succeeds,           \* history: the run before this one finished, on the same payload
    recover,            \* history: the tables and payload of a run that aborted
    last_op,            \* history: the last step of a member sync (SpecMembers),
                        \* the statements of a hard refresh (SpecRefresh)
    lcr,                \* sync_from_lcr.py: the sync_members call in progress, or NULL
    other,              \* a second process running main() on the same database
    rebuild,            \* sync_organizations_and_callings, statement by statement
    client,             \* the OAuthClient of the run, and where its call stands
    tokens_file         \* the tokens file on disk

tables == <<members, households, organizations, callings, calling_assignments,
            youth_interviews, pre_sync_calling_snapshot, calling_changes, tasks,
            calling_considerations, member_calling_needs,
            bishopric_stewardships, next_id>>
run == <<phase, pc, data, member_uuid_map, runs, done_steps, lcr, other, rebuild, client, tokens_file>>
history == <<before, pre_detect, succeeds, recover, last_op>>
vars == <<tables, run, edits, history>>

Tables ==
    [members |-> members, households |-> households,
     organizations |-> organizations, callings |-> callings,
     calling_assignments |-> calling_assignments,
     youth_interviews |-> youth_interviews,
     pre_sync_calling_snapshot |-> pre_sync_calling_snapshot,
     calling_changes |-> calling_changes, tasks |-> tasks,
     calling_considerations |-> calling_considerations,
     member_calling_needs |-> member_calling_needs,
     bishopric_stewardships |-> bishopric_stewardships, next_id |-> next_id]

\* conn.commit(): the tables become d
Commit(d) ==
    /\ members' = d.members
    /\ households' = d.households
    /\ organizations' = d.organizations
    /\ callings' = d.callings
    /\ calling_assignments' = d.calling_assignments
    /\ youth_interviews' = d.youth_interviews
    /\ pre_sync_calling_snapshot' = d.pre_sync_calling_snapshot
    /\ calling_changes' = d.calling_changes
    /\ tasks' = d.tasks
    /\ calling_considerations' = d.calling_considerations
    /\ member_calling_needs' = d.member_calling_needs
    /\ bishopric_stewardships' = d.bishopric_stewardships
    /\ next_id' = d.next_id

(***************************************************************************)
(* OAuthClient.  A token is a number; NULL is None.  The tokens file holds *)
(* refresh_token and access_token; the client holds the two attributes,    *)
(* the authenticated call in progress (get_user, then sync) and the place  *)
(* _request has reached in it.                                             *)
(***************************************************************************)
\* no client has been constructed
NoClient ==
    [at |-> "off", call |-> "none", access_token |-> NULL, refresh_token |-> NULL,
     requests |-> 0, refreshes |-> 0, status_code |-> 0, token_response |-> NULL,
     exit_code |-> NULL]

\* no tokens file is modelled
NoFile == NULL

\* _load_tokens: data.get('refresh_token'), data.get('access_token')
load_tokens(c, file) ==
    [c EXCEPT !.refresh_token = file.refresh_token,
              !.access_token = file.access_token]

\* _save_tokens
save_tokens(c) ==
    [refresh_token |-> c.refresh_token, access_token |-> c.access_token]

\* the token endpoint answers: a status, and on 200 the new access token and,
\* with a rolling refresh token, the new refresh token
TokenResponse(status_code, access_token, refresh_token) ==
    [status_code |-> status_code, access_token |-> access_token,
     refresh_token |-> refresh_token]

\* a refresh that forgets the access token when the endpoint refuses
refresh_or_forget(c, file, response) ==
    IF response.status_code # 200
    THEN [ok |-> FALSE, client |-> [c EXCEPT !.access_token = NULL],
          file |-> Some([refresh_token |-> c.refresh_token, access_token |-> NULL])]
    ELSE LET c1 == [c EXCEPT !.access_token = Some(response.access_token),
                             !.refresh_token =
                                 IF NotNull(response.refresh_token)
                                 THEN response.refresh_token ELSE @]
         IN  [ok |-> TRUE, client |-> c1,
              file |-> Some([refresh_token |-> c1.refresh_token,
                             access_token |-> c1.access_token])]

\* a refresh that does not write the tokens file
refresh_unsaved(c, file, response) ==
    IF response.status_code # 200
    THEN [ok |-> FALSE, client |-> c, file |-> file]
    ELSE [ok |-> TRUE,
          client |-> [c EXCEPT !.access_token = Some(response.access_token),
                               !.refresh_token =
                                   IF NotNull(response.refresh_token)
                                   THEN response.refresh_token ELSE @],
          file |-> file]

\* _refresh_access_token: [ok, client, file]; ok is FALSE when it raises
refresh_access_token(c, file, response) ==
    IF response.status_code # 200
    THEN [ok |-> FALSE, client |-> c, file |-> file]
    ELSE LET c1 == [c EXCEPT !.access_token = Some(response.access_token),
                             !.refresh_token =
                                 IF NotNull(response.refresh_token)
                                 THEN response.refresh_token ELSE @]
         IN  [ok |-> TRUE, client |-> c1, file |-> Some(save_tokens(c1))]

\* a 401 is always answered with a refresh and one more request
retry_every_401(status_code, requests) ==
    IF status_code = 401 THEN "refresh" ELSE "return"

\* _request after a response: "If unauthorized, refresh token and retry once"
after_response(status_code, requests) ==
    IF status_code = 401 /\ requests = 1 THEN "refresh" ELSE "return"

\* no member sync has run: the church ids of this run and of the one before
NoOp == [kind |-> "none", ids |-> {}, prev_ids |-> {}]

\* no second process
NoOther == [phase |-> "idle", pc |-> 0, data |-> "P1", member_uuid_map |-> {},
            overlap |-> FALSE, origin |-> NULL]

MaxRuns == 2
MaxEdits == 1

(***************************************************************************)
(* main(): the steps of one run, in the order main() calls them.           *)
(***************************************************************************)
refresh_before_capture ==
    << "sync_members_and_households", "hard_refresh_synced_tables",
       "capture_pre_sync_snapshot", "sync_organizations_and_callings",
       "sync_youth_interviews", "relink_cached_ids",
       "restore_user_entered_data", "detect_in_flight_callings" >>

main_steps ==
    << "sync_members_and_households", "capture_pre_sync_snapshot",
       "hard_refresh_synced_tables", "sync_organizations_and_callings",
       "sync_youth_interviews", "relink_cached_ids",
       "restore_user_entered_data", "detect_in_flight_callings" >>

\* one run of main() that nothing interrupts, from the tables db
main(db, payload) ==
    LET unit == home_unit_of(payload)
    IN  Do(sync_members_and_households(db, payload, unit), LAMBDA r :
           IF ~r.ok THEN db
           ELSE
           Do([db EXCEPT !.members = r.members, !.households = r.households],
              LAMBDA d1 :
           Do(capture_pre_sync_snapshot(d1), LAMBDA d2 :
           Do(hard_refresh_synced_tables(d2), LAMBDA d3 :
           Do(sync_organizations_and_callings(d3, payload, r.member_uuid_map, unit),
              LAMBDA d4 :
           Do(sync_youth_interviews(d4, payload, r.member_uuid_map), LAMBDA d5 :
           Do(relink_cached_ids(d5), LAMBDA d6 :
           Do(restore_user_entered_data(d6), LAMBDA d7 :
              detect_in_flight_callings(d7)))))))))

AtStep(name) == phase = "running" /\ pc <= Len(main_steps) /\ main_steps[pc] = name

\* the step returned: main() goes on to the next call, or to the summary
Advance(name) ==
    /\ pc' = pc + 1
    /\ phase' = IF pc = Len(main_steps) THEN "done" ELSE "running"
    /\ done_steps' = Append(done_steps, name)
    /\ UNCHANGED <<data, runs, edits, before, succeeds, recover, last_op, lcr, other, rebuild, client, tokens_file>>

home_unit == home_unit_of(Payloads[data])

InitRun ==
    /\ phase = "idle" /\ pc = 0 /\ data = "P1" /\ member_uuid_map = {}
    /\ runs = 0 /\ edits = 0 /\ done_steps = <<>>
    /\ before = NULL /\ pre_detect = NULL /\ succeeds = FALSE
    /\ recover = NULL /\ last_op = NoOp /\ lcr = NULL /\ other = NoOther
    /\ rebuild = NULL
    /\ client = NoClient /\ tokens_file = NoFile

\* a new database: the schema and no rows
Init ==
    /\ members = {} /\ households = {} /\ organizations = {} /\ callings = {}
    /\ calling_assignments = {} /\ youth_interviews = {}
    /\ pre_sync_calling_snapshot = {} /\ calling_changes = {} /\ tasks = {}
    /\ calling_considerations = {} /\ member_calling_needs = {}
    /\ bishopric_stewardships = {} /\ next_id = 1
    /\ InitRun

\* main() up to the first step: the user and the payload are fetched
StartRun ==
    /\ phase # "running" /\ runs < MaxRuns
    /\ \E p \in RunPayloads :
          /\ data' = p
          /\ succeeds' = (phase \in {"done", "synced"} /\ data = p)
          /\ recover' = IF phase = "aborted" /\ NotNull(recover)
                           /\ Val(recover).data = p
                        THEN recover ELSE NULL
    /\ phase' = "running" /\ pc' = 1 /\ runs' = runs + 1
    /\ member_uuid_map' = {} /\ done_steps' = <<>>
    /\ before' = Some(Tables) /\ pre_detect' = NULL
    /\ UNCHANGED <<tables, edits, last_op, lcr, other, rebuild, client, tokens_file>>

SyncMembersAndHouseholds ==
    /\ AtStep("sync_members_and_households")
    /\ LET r == sync_members_and_households(Tables, Payloads[data], home_unit)
       IN  IF r.ok
           THEN /\ members' = r.members
                /\ households' = r.households
                /\ member_uuid_map' = r.member_uuid_map
                /\ Advance("sync_members_and_households")
           ELSE \* the exception reaches main(): rollback, exit code 1
                /\ phase' = "failed"
                /\ UNCHANGED <<members, households, member_uuid_map, pc, data, runs,
                               edits, done_steps, before, succeeds, recover, last_op, lcr, other, rebuild, client, tokens_file>>
    /\ UNCHANGED <<organizations, callings, calling_assignments, youth_interviews,
                   pre_sync_calling_snapshot, calling_changes, tasks,
                   calling_considerations, member_calling_needs,
                   bishopric_stewardships, next_id, pre_detect>>

CapturePreSyncSnapshot ==
    /\ AtStep("capture_pre_sync_snapshot")
    /\ Commit(capture_pre_sync_snapshot(Tables))
    /\ Advance("capture_pre_sync_snapshot")
    /\ UNCHANGED <<member_uuid_map, pre_detect>>

HardRefreshSyncedTables ==
    /\ AtStep("hard_refresh_synced_tables")
    /\ Commit(hard_refresh_synced_tables(Tables))
    /\ Advance("hard_refresh_synced_tables")
    /\ UNCHANGED <<member_uuid_map, pre_detect>>

SyncOrganizationsAndCallings ==
    /\ AtStep("sync_organizations_and_callings")
    /\ Commit(sync_organizations_and_callings(Tables, Payloads[data],
                                              member_uuid_map, home_unit))
    /\ Advance("sync_organizations_and_callings")
    /\ UNCHANGED <<member_uuid_map, pre_detect>>

SyncYouthInterviews ==
    /\ AtStep("sync_youth_interviews")
    /\ Commit(sync_youth_interviews(Tables, Payloads[data], member_uuid_map))
    /\ Advance("sync_youth_interviews")
    /\ UNCHANGED <<member_uuid_map, pre_detect>>

RelinkCachedIds ==
    /\ AtStep("relink_cached_ids")
    /\ Commit(relink_cached_ids(Tables))
    /\ Advance("relink_cached_ids")
    /\ UNCHANGED <<member_uuid_map, pre_detect>>

RestoreUserEnteredData ==
    /\ AtStep("restore_user_entered_data")
    /\ Commit(restore_user_entered_data(Tables))
    /\ Advance("restore_user_entered_data")
    /\ UNCHANGED <<member_uuid_map, pre_detect>>

DetectInFlightCallings ==
    /\ AtStep("detect_in_flight_callings")
    /\ Commit(detect_in_flight_callings(Tables))
    /\ pre_detect' = Some(Tables)
    /\ Advance("detect_in_flight_callings")
    /\ UNCHANGED member_uuid_map

\* the run is killed between two steps: what the finished steps committed stays
Abort ==
    /\ phase = "running" /\ pc > 1
    /\ phase' = "aborted"
    /\ recover' = IF NotNull(recover) THEN recover
                  ELSE Some([db |-> Val(before), data |-> data])
    /\ UNCHANGED <<tables, pc, data, member_uuid_map, runs, edits, done_steps,
                   before, pre_detect, succeeds, last_op, lcr, other, rebuild, client, tokens_file>>

(***************************************************************************)
(* The application between two runs: the bishopric annotates an assignment,*)
(* plans a calling change, or completes one.                               *)
(***************************************************************************)
Annotations ==
    { [expected_release_date |-> Some([y |-> 2027, m |-> 1, d |-> 1]),
       release_notes |-> Some("text")],
      [expected_release_date |-> NULL, release_notes |-> Some("moving")] }

Edited ==
    /\ phase # "running" /\ edits < MaxEdits
    /\ edits' = edits + 1
    /\ phase' = IF phase \in {"done", "synced"} THEN "synced" ELSE "idle"
    /\ recover' = NULL
    /\ UNCHANGED <<pc, data, member_uuid_map, runs, done_steps, before,
                   pre_detect, succeeds, last_op, lcr, other, rebuild, client, tokens_file>>

\* the "Upcoming Releases" page: expected_release_date and release_notes
UserAnnotate ==
    /\ \E ca \in calling_assignments, ann \in Annotations :
          /\ ca.is_active
          /\ calling_assignments' =
                (calling_assignments \ {ca}) \cup
                {[ca EXCEPT !.expected_release_date = ann.expected_release_date,
                            !.release_notes = ann.release_notes]}
    /\ Edited
    /\ UNCHANGED <<members, households, organizations, callings, youth_interviews,
                   pre_sync_calling_snapshot, calling_changes, tasks,
                   calling_considerations, member_calling_needs,
                   bishopric_stewardships, next_id>>

\* the workflow marks a calling change completed
CompleteChange ==
    /\ \E cc \in calling_changes :
          /\ cc.status # "completed"
          /\ calling_changes' =
                (calling_changes \ {cc}) \cup {[cc EXCEPT !.status = "completed"]}
    /\ Edited
    /\ UNCHANGED <<members, households, organizations, callings,
                   calling_assignments, youth_interviews,
                   pre_sync_calling_snapshot, tasks, calling_considerations,
                   member_calling_needs, bishopric_stewardships, next_id>>

\* the callings the bishopric plans changes for
PlannedCallings == {<<"Bishopric", "Ward Clerk">>, <<"Bishopric", "Bishop">>}

\* the workflow plans a call (as_new) or a release of member m for calling c
PlanChange ==
    /\ \E c \in callings, m \in members, as_new \in BOOLEAN :
          /\ NotNull(m.church_id)
          /\ \E o \in organizations :
                o.id = c.organization_id /\ <<o.name, c.title>> \in PlannedCallings
          /\ calling_changes' = calling_changes \cup
                {[id |-> next_id,
                  calling_id |-> Some(c.id),
                  calling_org_name |->
                      Some(RowById(organizations, c.organization_id).name),
                  calling_title |-> Some(c.title),
                  new_member_id |-> IF as_new THEN Some(m.id) ELSE NULL,
                  new_member_church_id |-> IF as_new THEN m.church_id ELSE NULL,
                  current_member_id |-> IF as_new THEN NULL ELSE Some(m.id),
                  current_member_church_id |->
                      IF as_new THEN NULL ELSE m.church_id,
                  status |-> "pending", source |-> "manual"]}
    /\ next_id' = next_id + 1
    /\ Edited
    /\ UNCHANGED <<members, households, organizations, callings,
                   calling_assignments, youth_interviews,
                   pre_sync_calling_snapshot, tasks, calling_considerations,
                   member_calling_needs, bishopric_stewardships>>

Next ==
    \/ StartRun
    \/ SyncMembersAndHouseholds
    \/ CapturePreSyncSnapshot
    \/ HardRefreshSyncedTables
    \/ SyncOrganizationsAndCallings
    \/ SyncYouthInterviews
    \/ RelinkCachedIds
    \/ RestoreUserEnteredData
    \/ DetectInFlightCallings
    \/ UserAnnotate
    \/ CompleteChange
    \/ PlanChange

Spec == Init /\ [][Next]_vars

\* the same program, with runs that can be killed between two steps
NextAbort == Next \/ Abort

SpecAbort == Init /\ [][NextAbort]_vars

(***************************************************************************)
(* The same program with hard_refresh_synced_tables run one DELETE at a    *)
(* time inside its transaction.  last_op holds the tables the refresh      *)
(* started from and the tables emptied so far.                             *)
(***************************************************************************)
Refreshing == last_op.kind = "refresh"

DeleteStatement ==
    /\ AtStep("hard_refresh_synced_tables")
    /\ LET op == IF Refreshing THEN last_op
                 ELSE [kind |-> "refresh", before |-> Tables, deleted |-> <<>>,
                       failed |-> FALSE]
           table == refresh_statements[Len(op.deleted) + 1]
       IN  /\ Len(op.deleted) < Len(refresh_statements)
           /\ IF fk_violation(Tables, table)
              THEN \* the exception reaches main(): rollback, exit code 1
                   /\ Commit(op.before)
                   /\ phase' = "failed"
                   /\ last_op' = [op EXCEPT !.failed = TRUE]
              ELSE /\ Commit(delete_from(Tables, table))
                   /\ phase' = phase
                   /\ last_op' = [op EXCEPT !.deleted = Append(@, table)]
    /\ UNCHANGED <<pc, data, member_uuid_map, runs, done_steps, lcr, other, rebuild, client, tokens_file,
                   edits, before, pre_detect, succeeds, recover>>

\* conn.commit() of the refresh
CommitRefresh ==
    /\ AtStep("hard_refresh_synced_tables")
    /\ Refreshing /\ Len(last_op.deleted) = Len(refresh_statements)
    /\ pc' = pc + 1
    /\ done_steps' = Append(done_steps, "hard_refresh_synced_tables")
    /\ last_op' = NoOp
    /\ UNCHANGED <<tables, phase, data, member_uuid_map, runs, lcr, other, rebuild, client, tokens_file,
                   edits, before, pre_detect, succeeds, recover>>

NextRefresh ==
    \/ StartRun
    \/ SyncMembersAndHouseholds
    \/ CapturePreSyncSnapshot
    \/ DeleteStatement
    \/ CommitRefresh
    \/ SyncOrganizationsAndCallings
    \/ SyncYouthInterviews
    \/ RelinkCachedIds
    \/ RestoreUserEnteredData
    \/ DetectInFlightCallings
    \/ UserAnnotate
    \/ CompleteChange
    \/ PlanChange

SpecRefresh == Init /\ [][NextRefresh]_vars

(***************************************************************************)
(* Two processes run main() against the same database, with no run lock:   *)
(* each step is one transaction, and the steps of the two interleave.  The *)
(* database holds what a finished run on P1 left, and one annotation.      *)
(***************************************************************************)
NewDatabase ==
    [members |-> {}, households |-> {}, organizations |-> {}, callings |-> {},
     calling_assignments |-> {}, youth_interviews |-> {},
     pre_sync_calling_snapshot |-> {}, calling_changes |-> {}, tasks |-> {},
     calling_considerations |-> {}, member_calling_needs |-> {},
     bishopric_stewardships |-> {}, next_id |-> 1]

\* the assignments of db that the annotation of spec section 3 can be read back from
Annotatable(db) ==
    {j.ca : j \in {k \in AssignmentJoin(db) :
                      k.ca.is_active /\ NotNull(k.m.church_id)}}

\* db with the assignment ca annotated
Annotated(db, ca, ann) ==
    [db EXCEPT !.calling_assignments =
        (@ \ {ca}) \cup
        {[ca EXCEPT !.expected_release_date = ann.expected_release_date,
                    !.release_notes = ann.release_notes]}]

InitConcurrent ==
    /\ \E left \in {main(NewDatabase, Payloads.P1)} :
       \E ca \in Annotatable(left), ann \in Annotations :
       \E d \in {Annotated(left, ca, ann)} :
          /\ members = d.members /\ households = d.households
          /\ organizations = d.organizations /\ callings = d.callings
          /\ calling_assignments = d.calling_assignments
          /\ youth_interviews = d.youth_interviews
          /\ pre_sync_calling_snapshot = d.pre_sync_calling_snapshot
          /\ calling_changes = d.calling_changes /\ tasks = d.tasks
          /\ calling_considerations = d.calling_considerations
          /\ member_calling_needs = d.member_calling_needs
          /\ bishopric_stewardships = d.bishopric_stewardships
          /\ next_id = d.next_id
          /\ other = [NoOther EXCEPT !.origin = Some(d)]
    /\ phase = "synced" /\ pc = 0 /\ data = "P1" /\ member_uuid_map = {}
    /\ runs = 1 /\ edits = 1 /\ done_steps = <<>>
    /\ before = NULL /\ pre_detect = NULL /\ succeeds = FALSE
    /\ recover = NULL /\ last_op = NoOp /\ lcr = NULL /\ rebuild = NULL
    /\ client = NoClient /\ tokens_file = NoFile

\* one step of main(), by name: [ok, db, member_uuid_map]
run_step(name, db, payload, map) ==
    LET unit == home_unit_of(payload)
        same(d) == [ok |-> TRUE, db |-> d, member_uuid_map |-> map]
    IN  CASE name = "sync_members_and_households" ->
                Do(sync_members_and_households(db, payload, unit), LAMBDA r :
                   [ok |-> r.ok,
                    db |-> [db EXCEPT !.members = r.members,
                                      !.households = r.households],
                    member_uuid_map |-> r.member_uuid_map])
          [] name = "capture_pre_sync_snapshot" ->
                same(capture_pre_sync_snapshot(db))
          [] name = "hard_refresh_synced_tables" ->
                same(hard_refresh_synced_tables(db))
          [] name = "sync_organizations_and_callings" ->
                same(sync_organizations_and_callings(db, payload, map, unit))
          [] name = "sync_youth_interviews" ->
                same(sync_youth_interviews(db, payload, map))
          [] name = "relink_cached_ids" -> same(relink_cached_ids(db))
          [] name = "restore_user_entered_data" ->
                same(restore_user_entered_data(db))
          [] name = "detect_in_flight_callings" ->
                same(detect_in_flight_callings(db))

\* what the second process leaves alone
OtherFrame ==
    UNCHANGED <<phase, pc, data, member_uuid_map, runs, done_steps, lcr, edits,
                before, pre_detect, succeeds, recover, last_op, rebuild, client, tokens_file>>

\* the second process starts, on the payload the first one fetched, while the
\* first is running or after it has finished
OtherStart ==
    /\ other.phase = "idle" /\ runs > 1 /\ phase \in {"running", "done"}
    /\ other' = [other EXCEPT !.phase = "running", !.pc = 1, !.data = data,
                              !.overlap = (phase = "running")]
    /\ UNCHANGED tables
    /\ OtherFrame

\* the second process runs its next step
OtherStep ==
    /\ other.phase = "running"
    /\ \E r \in {run_step(main_steps[other.pc], Tables, Payloads[other.data],
                          other.member_uuid_map)} :
           IF r.ok
           THEN /\ Commit(r.db)
                /\ other' = [other EXCEPT
                                !.pc = @ + 1,
                                !.phase = IF other.pc = Len(main_steps)
                                          THEN "done" ELSE "running",
                                !.member_uuid_map = r.member_uuid_map]
           ELSE /\ other' = [other EXCEPT !.phase = "failed"]
                /\ UNCHANGED tables
    /\ OtherFrame

\* the first process is started once
FirstStart == runs = 1 /\ StartRun

NextConcurrent ==
    \/ FirstStart
    \/ SyncMembersAndHouseholds
    \/ CapturePreSyncSnapshot
    \/ HardRefreshSyncedTables
    \/ SyncOrganizationsAndCallings
    \/ SyncYouthInterviews
    \/ RelinkCachedIds
    \/ RestoreUserEnteredData
    \/ DetectInFlightCallings
    \/ OtherStart
    \/ OtherStep

SpecConcurrent == InitConcurrent /\ [][NextConcurrent]_vars

(***************************************************************************)
(* sync_organizations_and_callings on a refreshed database, one statement  *)
(* group at a time: the lookup walk, the materialization walk, the         *)
(* position loop, the seeding pass.  The payload is one member with up to  *)
(* MaxPositions positions from PositionPool, under one tree of Trees.      *)
(***************************************************************************)
MaxPositions == 2

\* rosters with child nodes, and forced roots nested under other nodes
RosterTree ==
    << ExtOrg(Some("Elders Quorum"), <<>>,
              << ExtOrg(Some("Additional Callings"), <<"p-eq-greeter">>,
                        << ExtOrg(Some("Teachers"), <<"p-eq-teacher">>, <<>>),
                           ExtOrg(Some("Ward Missionaries"), <<"p-missionary">>,
                                  <<>>) >>) >>),
       ExtOrg(Some("Relief Society"), <<>>,
              << ExtOrg(Some("Additional Callings"), <<"p-rs-greeter">>,
                        << ExtOrg(Some("Teachers"), <<"p-rs-teacher">>, <<>>) >>),
                 ExtOrg(Some("Sunday School"), <<"p-primary-music">>,
                        << ExtOrg(Some("Other"), <<>>, <<>>) >>) >>) >>

\* a roster at the root, and node names that occur twice
TwiceTree ==
    << ExtOrg(Some("Quorum Adult Leaders"), <<"p-eq-greeter">>, <<>>),
       ExtOrg(Some("Primary"), <<"p-primary-music">>,
              << ExtOrg(Some("Nursery"), <<"p-rs-greeter">>, <<>>) >>),
       ExtOrg(Some("Young Women"), <<>>,
              << ExtOrg(Some("Nursery"), <<"p-yw-president">>, <<>>),
                 ExtOrg(Some("Music"), <<>>,
                        << ExtOrg(Some("Activities"), <<"p-clerk">>, <<>>) >>) >>),
       ExtOrg(Some("Primary"), <<>>, <<>>) >>

Trees == {OrgTree, RosterTree, TwiceTree}

YwPresident ==
    Position(Some("p-yw-president"), Some("Young Women Class President"),
             Some("YOUNG_WOMEN"), Some("Maple Ward"), HomeUnit, NULL, TRUE)
ShoutedClerk ==
    Position(NULL, Some("ASSISTANT WARD CLERK"), NULL, NULL, NULL, NULL, FALSE)
PlainClerk ==
    Position(NULL, Some("Ward Clerk"), NULL, NULL, NULL, Some("2025-03-02"), FALSE)
EqGreeter ==
    Position(Some("p-eq-greeter"), Some("Greeter"), Some("primary_music"),
             Some("Maple Ward"), HomeUnit, NULL, FALSE)
PlainGreeter ==
    Position(NULL, Some("Greeter"), NULL, NULL, NULL, NULL, FALSE)
NurseryMusic ==
    Position(Some(""), Some("Nursery Music Leader"), Some("WARD"), NULL, NULL,
             NULL, FALSE)
VisitingBishop ==
    Position(NULL, Some("Bishop"), Some("BISHOPRIC"), Some("Oak Ward"), Some(2),
             NULL, TRUE)

PositionPool ==
    {WardClerk, RsTeacher, EqTeacher, Pianist, YwPresident, ShoutedClerk,
     PlainClerk, EqGreeter, PlainGreeter, NurseryMusic, VisitingBishop}

PositionLists ==
    UNION {[1..n -> PositionPool] : n \in 0..MaxPositions}

RebuildPayload(tree, positions) ==
    [Payload(Household(<< John("u-john", positions) >>))
        EXCEPT !.organizations = tree]

InitRebuild ==
    /\ \E tree \in Trees, positions \in PositionLists :
       \E payload \in {RebuildPayload(tree, positions)} :
       \E r \in {sync_members_and_households(NewDatabase, payload,
                                              home_unit_of(payload))} :
          /\ rebuild = Some([stage |-> 0, data |-> payload, map |-> <<>>])
          /\ members = r.members /\ households = r.households
          /\ member_uuid_map = r.member_uuid_map
    /\ organizations = {} /\ callings = {} /\ calling_assignments = {}
    /\ youth_interviews = {} /\ pre_sync_calling_snapshot = {}
    /\ calling_changes = {} /\ tasks = {} /\ calling_considerations = {}
    /\ member_calling_needs = {} /\ bishopric_stewardships = {}
    /\ next_id = 1
    /\ phase = "running" /\ pc = 4 /\ data = "P1"
    /\ runs = 1 /\ edits = 0 /\ done_steps = <<>>
    /\ before = NULL /\ pre_detect = NULL /\ succeeds = FALSE
    /\ recover = NULL /\ last_op = NoOp /\ lcr = NULL /\ other = NoOther
    /\ client = NoClient /\ tokens_file = NoFile

RebuildFrame ==
    UNCHANGED <<phase, pc, data, member_uuid_map, runs, done_steps, lcr, other,
                edits, before, pre_detect, succeeds, recover, last_op,
                client, tokens_file>>

Stage(n) == NotNull(rebuild) /\ Val(rebuild).stage = n
StageDone(n) == rebuild' = Some([Val(rebuild) EXCEPT !.stage = n])

\* for org in organizations: traverse_org_hierarchy(org)
BuildLookup ==
    /\ Stage(0)
    /\ rebuild' = Some([Val(rebuild) EXCEPT
                           !.stage = 1,
                           !.map = position_to_org_map(Val(rebuild).data.organizations)])
    /\ UNCHANGED tables
    /\ RebuildFrame

\* for org in organizations: create_orgs_recursive(org)
CreateOrgs ==
    /\ Stage(1)
    /\ Commit(create_child_orgs(Tables, Val(rebuild).data.organizations, 1,
                                NULL, NULL))
    /\ StageDone(2)
    /\ RebuildFrame

\* the position loop
SyncPositions ==
    /\ Stage(2)
    /\ LET payload == Val(rebuild).data
           unit == home_unit_of(payload)
       IN  Commit(sync_household_positions(
                      Tables, SelectHouseholds(payload.households, 1, unit),
                      1, member_uuid_map, Val(rebuild).map, unit))
    /\ StageDone(3)
    /\ RebuildFrame

\* sync_standard_callings(conn)
SeedStandardCallings ==
    /\ Stage(3)
    /\ Commit(sync_standard_callings(Tables))
    /\ StageDone(4)
    /\ RebuildFrame

NextRebuild ==
    \/ BuildLookup
    \/ CreateOrgs
    \/ SyncPositions
    \/ SeedStandardCallings

SpecRebuild == InitRebuild /\ [][NextRebuild]_vars

(***************************************************************************)
(* Member resolution alone: the member step of sync_from_membertools.py    *)
(* and sync_members of sync_from_lcr.py, run one after the other on a      *)
(* members table that earlier imports and syncs have filled.               *)
(***************************************************************************)
MaxMemberSyncs == 2

\* rows an import without church ids left behind, and a namesake with one
LegacyRow(id, first_name, last_name, email, phone, church_id) ==
    [id |-> id, household_id |-> NULL, first_name |-> first_name,
     last_name |-> last_name, email |-> email, phone |-> phone,
     gender |-> NULL, age |-> NULL, is_active |-> TRUE, church_id |-> church_id]

LegacyJohn == LegacyRow("r-john", "John", "Smith", Some("old@example.org"),
                        Some("555-0100"), NULL)
LegacyJohnB == LegacyRow("r-john-b", "john", "SMITH", NULL, NULL, NULL)
OtherJohn == LegacyRow("r-john-sr", "John", "Smith", Some("sr@example.org"),
                       NULL, Some(999))
LegacyCher == LegacyRow("r-cher", "Cher", "", Some("cher@example.org"), NULL, NULL)

JohnOnly == Payload(Household(<< John("u-john", <<>>) >>))

\* the members and households tables the member syncs start from
InitialDbs ==
    { [members |-> {}, households |-> {}],
      [members |-> {LegacyJohn, LegacyJohnB, OtherJohn, LegacyCher},
       households |-> {}],
      [members |-> sync_members_and_households(
                       [members |-> {}, households |-> {}], JohnOnly,
                       HomeUnit).members,
       households |-> sync_members_and_households(
                       [members |-> {}, households |-> {}], JohnOnly,
                       HomeUnit).households] }

SmithHousehold == Some([uuid |-> "h-1", name |-> "Smith", address |-> Some("1 Main St")])

LcrJohn ==
    LcrRecord(Some("u-john"), Some(101), NULL, Some("JOHN"), Some("smith"), <<>>,
              Some("555-0101"), Some("M"), Some(45), SmithHousehold)
LcrJohnReissued ==
    LcrRecord(Some("u-john-3"), Some(101), NULL, Some("John"), Some("Smith"),
              <<"john@new.example.org">>, NULL, NULL, NULL, NULL)
LcrMary ==
    LcrRecord(NULL, Some(102), Some("mrn-102"), Some("Mary"), Some("Jones"),
              <<"">>, NULL, Some("F"), Some(41), SmithHousehold)
LcrCher ==
    LcrRecord(Some("u-cher"), Some(103), NULL, Some("Cher"), NULL, <<>>, NULL,
              Some("F"), Some(17), NULL)
LcrNobody ==
    LcrRecord(NULL, NULL, NULL, Some("Pat"), Some("Doe"), <<>>, NULL, NULL, NULL, NULL)
LcrJunior ==
    LcrRecord(Some("u-john"), Some(105), NULL, Some("John"), Some("Smith"), <<>>,
              NULL, Some("M"), Some(12), SmithHousehold)

\* client.get_member_list()
LcrInputs ==
    { <<LcrJohn>>, <<LcrJohnReissued>>, <<LcrCher>>, <<LcrMary, LcrNobody>>,
      <<LcrJohn, LcrMary>>, <<LcrMary, LcrJunior>>, <<LcrJohnReissued, LcrCher>> }

\* the church ids the records of a member list carry
lcr_church_ids(input) ==
    {Val(input[i].legacyCmisId) : i \in {k \in 1..Len(input) : NotNull(input[k].legacyCmisId)}}

\* the church ids the members of a membertools payload carry
mt_church_ids(payload) ==
    LET ms == UNION { {h.members[i] : i \in 1..Len(h.members)} :
                      h \in {payload.households[k] : k \in 1..Len(payload.households)} }
    IN  {member_church_id(m)[2] : m \in {x \in ms : IsPyInt(member_church_id(x))}}

InitMembers ==
    /\ \E db \in InitialDbs : members = db.members /\ households = db.households
    /\ organizations = {} /\ callings = {}
    /\ calling_assignments = {} /\ youth_interviews = {}
    /\ pre_sync_calling_snapshot = {} /\ calling_changes = {} /\ tasks = {}
    /\ calling_considerations = {} /\ member_calling_needs = {}
    /\ bishopric_stewardships = {} /\ next_id = 1
    /\ InitRun

\* what a member sync leaves alone
MemberSyncFrame ==
    UNCHANGED <<organizations, callings, calling_assignments, youth_interviews,
                pre_sync_calling_snapshot, calling_changes, tasks,
                calling_considerations, member_calling_needs,
                bishopric_stewardships, next_id, phase, pc, data,
                member_uuid_map, edits, done_steps, before, pre_detect,
                succeeds, recover, other, rebuild, client, tokens_file>>

\* sync_from_membertools.py, sync_members_and_households: one transaction
MtSyncMembers ==
    /\ lcr = NULL /\ runs < MaxMemberSyncs
    /\ \E p \in RunPayloads :
          LET r == sync_members_and_households(Tables, Payloads[p],
                                               home_unit_of(Payloads[p]))
          IN  /\ members' = r.members
              /\ households' = r.households
              /\ last_op' = [kind |-> IF r.ok THEN "membertools"
                                      ELSE "membertools_failed",
                             ids |-> mt_church_ids(Payloads[p]),
                             prev_ids |-> last_op.ids]
    /\ runs' = runs + 1
    /\ UNCHANGED lcr
    /\ MemberSyncFrame

\* sync_from_lcr.py, sync_members: the member list is fetched
LcrStart ==
    /\ lcr = NULL /\ runs < MaxMemberSyncs
    /\ \E input \in LcrInputs :
          /\ lcr' = Some([input |-> input, i |-> 1,
                          st |-> [ok |-> TRUE, members |-> members,
                                  households |-> households,
                                  member_id_map |-> {}]])
          /\ last_op' = [kind |-> "lcr_start", ids |-> lcr_church_ids(input),
                         prev_ids |-> last_op.ids]
    /\ runs' = runs + 1
    /\ UNCHANGED <<members, households>>
    /\ MemberSyncFrame

\* one turn of the loop; an exception ends the run with nothing committed
LcrMember ==
    /\ NotNull(lcr) /\ Val(lcr).i <= Len(Val(lcr).input)
    /\ LET run_ == Val(lcr)
           rec == run_.input[run_.i]
       IN  IF IsNull(lcr_person_uuid(rec))
           THEN /\ lcr' = Some([run_ EXCEPT !.i = @ + 1])
                /\ last_op' = [kind |-> "lcr_skipped", ids |-> last_op.ids,
                               prev_ids |-> last_op.prev_ids]
           ELSE \E pick \in premerge_picks(run_.st.members, lcr_member_row(rec)) :
                   LET st == lcr_sync_member(run_.st, rec, pick)
                   IN  IF st.ok
                       THEN /\ lcr' = Some([run_ EXCEPT !.i = @ + 1, !.st = st])
                            /\ last_op' = [kind |-> "lcr", rec |-> rec,
                                           pick |-> pick,
                                           before |-> run_.st.members,
                                           after |-> st.members,
                                           ids |-> last_op.ids,
                                           prev_ids |-> last_op.prev_ids]
                       ELSE /\ lcr' = NULL
                            /\ last_op' = [kind |-> "lcr_failed",
                                           ids |-> last_op.ids,
                                           prev_ids |-> last_op.prev_ids]
    /\ UNCHANGED <<members, households, runs>>
    /\ MemberSyncFrame

\* conn.commit()
LcrCommit ==
    /\ NotNull(lcr) /\ Val(lcr).i > Len(Val(lcr).input)
    /\ members' = Val(lcr).st.members
    /\ households' = Val(lcr).st.households
    /\ lcr' = NULL
    /\ last_op' = [kind |-> "lcr_committed", ids |-> last_op.ids,
                   prev_ids |-> last_op.prev_ids]
    /\ UNCHANGED runs
    /\ MemberSyncFrame

NextMembers ==
    \/ MtSyncMembers
    \/ LcrStart
    \/ LcrMember
    \/ LcrCommit

SpecMembers == InitMembers /\ [][NextMembers]_vars

(***************************************************************************)
(* Properties.                                                             *)
(***************************************************************************)
\* the natural key of an assignment: (organization name, calling title,
\* member church id); two keys are the same when the church id is there
SameKey(j, k) ==
    /\ NotNull(j.m.church_id) /\ j.m.church_id = k.m.church_id
    /\ j.o.name = k.o.name /\ j.c.title = k.c.title

ActiveJoin(db) == {j \in AssignmentJoin(db) : j.ca.is_active}

OrgKeys(db) ==
    {<<o.name,
       IF IsNull(o.parent_org_id) THEN NULL
       ELSE Some(RowById(db.organizations, Val(o.parent_org_id)).name)>> :
     o \in db.organizations}
CallingKeys(db) ==
    {<<RowById(db.organizations, c.organization_id).name, c.title>> :
     c \in db.callings}

\* C2: a full sync of the payload the finished run before it synced leaves the
\* same members, households, organizations and callings, and creates no
\* calling change.
C2_FullSyncIdempotent ==
    (phase = "done" /\ succeeds) =>
        /\ members = Val(before).members
        /\ households = Val(before).households
        /\ OrgKeys(Tables) = OrgKeys(Val(before))
        /\ CallingKeys(Tables) = CallingKeys(Val(before))
        /\ {cc.id : cc \in calling_changes} =
               {cc.id : cc \in Val(before).calling_changes}

C2_Witness ==
    /\ phase = "done" /\ succeeds
    /\ members # {} /\ callings # {} /\ calling_changes # {}
    /\ \E cc \in calling_changes : cc.status = "completed"

\* the order the run must keep
StepOrder ==
    << "sync_members_and_households", "capture_pre_sync_snapshot",
       "hard_refresh_synced_tables", "sync_organizations_and_callings",
       "relink_cached_ids", "restore_user_entered_data",
       "detect_in_flight_callings" >>

IndexOf(q, x) == CHOOSE i \in 1..Len(q) : q[i] = x

\* C3: within one run the steps finish in the order resolution, capture, hard
\* refresh, rebuild, re-link, restore, detection, one at a time: a step has
\* finished only after every step before it, and never twice.
C3_StepOrdering ==
    /\ \A i, j \in 1..Len(done_steps) : done_steps[i] = done_steps[j] => i = j
    /\ \A a, b \in 1..Len(StepOrder) :
          (a < b /\ StepOrder[b] \in SeqToSet(done_steps)) =>
              /\ StepOrder[a] \in SeqToSet(done_steps)
              /\ IndexOf(done_steps, StepOrder[a]) < IndexOf(done_steps, StepOrder[b])
    /\ phase = "running" => pc = Len(done_steps) + 1
    /\ phase = "done" => SeqToSet(StepOrder) \subseteq SeqToSet(done_steps)

C3_Witness ==
    /\ phase = "done"
    /\ done_steps[Len(done_steps)] = "detect_in_flight_callings"
    /\ calling_assignments # {}

\* what in-flight detection created: the rows that were not there before it
CreatedChanges ==
    {cc \in calling_changes :
        \A old \in Val(pre_detect).calling_changes : old.id # cc.id}
CreatedTasks(cc, task_type) ==
    {t \in tasks :
        /\ \A old \in Val(pre_detect).tasks : old.id # t.id
        /\ t.calling_change_id = cc.id
        /\ t.task_type = task_type}
PendingTasks(cc, task_type) ==
    {t \in CreatedTasks(cc, task_type) : t.status = "pending"}
AllCreatedTasks(cc) ==
    {t \in tasks : /\ \A old \in Val(pre_detect).tasks : old.id # t.id
                   /\ t.calling_change_id = cc.id}

\* the assignment j is in the snapshot; a calling change that is not completed
\* targets j's (organization, title, new member)
KeyInSnapshot(j) ==
    \E pss \in Val(pre_detect).pre_sync_calling_snapshot :
        /\ pss.calling_org_name = j.o.name
        /\ pss.calling_title = j.c.title
        /\ pss.member_church_id = j.m.church_id
TrackedAsNew(j) ==
    \E cc \in Val(pre_detect).calling_changes :
        /\ cc.status # "completed"
        /\ cc.calling_org_name = Some(j.o.name)
        /\ cc.calling_title = Some(j.c.title)
        /\ NotNull(j.m.church_id)
        /\ cc.new_member_church_id = j.m.church_id
CreatedAsNew(j) ==
    {cc \in CreatedChanges :
        /\ cc.calling_org_name = Some(j.o.name)
        /\ cc.calling_title = Some(j.c.title)
        /\ cc.new_member_id = Some(j.m.id)}

\* what the claim asks of detection for the assignment j
NewAssignmentHandled(j) ==
    IF ~KeyInSnapshot(j) /\ ~TrackedAsNew(j)
    THEN /\ Cardinality(CreatedAsNew(j)) = 1
         /\ \A cc \in CreatedAsNew(j) :
               /\ cc.new_member_church_id = j.m.church_id
               /\ IsNull(cc.current_member_id)
               /\ Cardinality(PendingTasks(cc, "notify_organization")) = 1
               /\ Cardinality(PendingTasks(cc, "set_apart")) =
                     (IF IsNull(j.ca.set_apart_date) THEN 1 ELSE 0)
               /\ Cardinality(PendingTasks(cc, "record_set_apart")) =
                     (IF IsNull(j.ca.set_apart_date) THEN 1 ELSE 0)
               /\ Cardinality(AllCreatedTasks(cc)) =
                     (IF IsNull(j.ca.set_apart_date) THEN 3 ELSE 1)
    ELSE CreatedAsNew(j) = {}

\* C8, as the code has it: for each active assignment after the rebuild whose
\* member has a church id, detection creates one calling change, one pending
\* notify_organization task and, exactly when there is no set-apart date, one
\* pending set_apart and one pending record_set_apart task, if the natural key
\* is not in the snapshot and no calling change that is not completed targets
\* it; otherwise it creates nothing.
C8_NewAssignmentDetected ==
    phase = "done" =>
        \A j \in ActiveJoin(Val(pre_detect)) :
            NotNull(j.m.church_id) => NewAssignmentHandled(j)

C8_Witness ==
    /\ phase = "done"
    /\ \E j \in ActiveJoin(Val(pre_detect)) :
          /\ NotNull(j.m.church_id) /\ ~KeyInSnapshot(j) /\ ~TrackedAsNew(j)
          /\ IsNull(j.ca.set_apart_date)
          /\ Cardinality(CreatedAsNew(j)) = 1
    /\ \E j \in ActiveJoin(Val(pre_detect)) :
          /\ NotNull(j.m.church_id) /\ ~KeyInSnapshot(j) /\ ~TrackedAsNew(j)
          /\ NotNull(j.ca.set_apart_date)
          /\ Cardinality(CreatedAsNew(j)) = 1

\* C8, as the claim has it: the same for every active assignment after the
\* rebuild, the member's church id there or not.
C8_EveryAssignment ==
    phase = "done" =>
        \A j \in ActiveJoin(Val(pre_detect)) : NewAssignmentHandled(j)

\* the snapshot row pss has an active assignment after the rebuild; a calling
\* change that is not completed targets its (organization, title, released
\* member); its calling and its member still resolve
StillAssigned(pss) ==
    \E j \in ActiveJoin(Val(pre_detect)) :
        /\ j.o.name = pss.calling_org_name
        /\ j.c.title = pss.calling_title
        /\ j.m.church_id = pss.member_church_id
TrackedAsRelease(pss) ==
    \E cc \in Val(pre_detect).calling_changes :
        /\ cc.status # "completed"
        /\ cc.calling_org_name = Some(pss.calling_org_name)
        /\ cc.calling_title = Some(pss.calling_title)
        /\ cc.current_member_church_id = pss.member_church_id
Resolves(pss) ==
    /\ \E c \in callings, o \in organizations :
          /\ c.organization_id = o.id
          /\ o.name = pss.calling_org_name /\ c.title = pss.calling_title
    /\ \E m \in members : m.church_id = pss.member_church_id
CreatedAsRelease(pss) ==
    {cc \in CreatedChanges :
        /\ cc.calling_org_name = Some(pss.calling_org_name)
        /\ cc.calling_title = Some(pss.calling_title)
        /\ cc.current_member_church_id = pss.member_church_id}

\* C9: for each snapshot row with no active assignment of the same natural key
\* after the rebuild, and no calling change that is not completed targeting
\* it, detection creates one calling change (current member set, new member
\* empty) and one pending notify_organization task and no other task, when
\* the calling and the member still resolve; for a snapshot row that is still
\* assigned or already tracked it creates none.
C9_ReleaseDetected ==
    phase = "done" =>
        \A pss \in Val(pre_detect).pre_sync_calling_snapshot :
            IF ~StillAssigned(pss) /\ ~TrackedAsRelease(pss)
            THEN Resolves(pss) =>
                    /\ Cardinality(CreatedAsRelease(pss)) = 1
                    /\ \A cc \in CreatedAsRelease(pss) :
                          /\ NotNull(cc.current_member_id)
                          /\ IsNull(cc.new_member_id)
                          /\ IsNull(cc.new_member_church_id)
                          /\ Cardinality(PendingTasks(cc, "notify_organization")) = 1
                          /\ Cardinality(AllCreatedTasks(cc)) = 1
            ELSE CreatedAsRelease(pss) = {}

C9_Witness ==
    /\ phase = "done"
    /\ \E pss \in Val(pre_detect).pre_sync_calling_snapshot :
          /\ ~StillAssigned(pss) /\ ~TrackedAsRelease(pss) /\ Resolves(pss)
          /\ \E cc \in CreatedAsRelease(pss) :
                \E m \in members :
                    cc.current_member_id = Some(m.id)
                    /\ m.church_id = pss.member_church_id

\* C10: detection run again right after detection, with nothing changed in
\* between, creates no calling change and no task.
C10_DetectionIdempotent ==
    phase = "done" =>
        LET again == detect_in_flight_callings(Tables)
        IN  /\ again.calling_changes = calling_changes
            /\ again.tasks = tasks
            /\ again.next_id = next_id

C10_Witness ==
    /\ phase = "done"
    /\ \E cc \in CreatedChanges : NotNull(cc.new_member_id)
    /\ \E cc \in CreatedChanges : NotNull(cc.current_member_id)
    /\ detect_in_flight_callings(Tables).calling_changes = calling_changes

\* the tables without the ids the sequences hand out, and without the
\* snapshot table, which is scratch space of the run
Outcome(db) ==
    [members |-> db.members,
     households |-> db.households,
     organizations |-> OrgKeys(db),
     callings |-> CallingKeys(db),
     calling_assignments |->
         {[org |-> j.o.name, title |-> j.c.title, member_id |-> j.m.id,
           is_active |-> j.ca.is_active,
           sustained_date |-> j.ca.sustained_date,
           set_apart_date |-> j.ca.set_apart_date,
           expected_release_date |-> j.ca.expected_release_date,
           release_notes |-> j.ca.release_notes] : j \in AssignmentJoin(db)},
     youth_interviews |-> db.youth_interviews,
     calling_changes |->
         {[org |-> cc.calling_org_name, title |-> cc.calling_title,
           new_member |-> cc.new_member_church_id,
           current_member |-> cc.current_member_church_id,
           status |-> cc.status, source |-> cc.source,
           tasks |-> {[task_type |-> t.task_type, status |-> t.status,
                       member |-> t.member_church_id] :
                      t \in {u \in db.tasks : u.calling_change_id = cc.id}}] :
          cc \in db.calling_changes}]

\* C4: a run was killed between two steps and the sync was run again on the
\* same payload; when that run has finished, the tables (annotations and
\* calling changes included) are what one uninterrupted run would have left.
C4_RecoveryByRerun ==
    (phase = "done" /\ NotNull(recover)) =>
        Outcome(Tables) = Outcome(main(Val(recover).db, Payloads[Val(recover).data]))


(***************************************************************************)
(* Member resolution (SpecMembers).                                        *)
(***************************************************************************)
\* no member sync is in progress
Settled == lcr = NULL /\ last_op.kind # "none"

RowsHolding(ms, x) == {m \in ms : m.church_id = Some(x)}

(***************************************************************************)
(* C5: after two successive member syncs, every external-stable id that    *)
(* appears in the payloads of both is held by exactly one member row, also *)
(* when the member's uuid differs between the two payloads.                *)
(***************************************************************************)
C5_OneRowPerChurchId ==
    Settled =>
        \A x \in last_op.ids \cap last_op.prev_ids :
            Cardinality(RowsHolding(members, x)) = 1

\* the record of the last turn of the LCR loop, as the statements see it
LastRow == lcr_member_row(last_op.rec)

\* the record brings a church id that no row held
Introduces(ms, row) ==
    NotNull(row.church_id) /\ \A m \in ms : m.church_id # row.church_id

SameName(m, row) ==
    /\ lower(m.first_name) = lower(row.first_name)
    /\ lower(m.last_name) = lower(row.last_name)

\* the rows without a church id whose names match the record's
FallbackRows(ms, row) == {m \in ms : IsNull(m.church_id) /\ SameName(m, row)}

\* one of the fallback rows now holds the record's church id, and no row was added
Backfilled(ms, after, row) ==
    /\ \E m \in FallbackRows(ms, row) :
          \E n \in after : n.id = m.id /\ n.church_id = row.church_id
    /\ {n.id : n \in after} = {m.id : m \in ms}

\* a row that holds another church id under the same name is as it was
NamesakesUntouched(ms, after, row) ==
    \A m \in ms :
        (NotNull(m.church_id) /\ m.church_id # row.church_id /\ SameName(m, row))
            => m \in after

(***************************************************************************)
(* C6: when an LCR record with non-empty first and last names introduces a *)
(* church id and a row without church id has the same names (compared      *)
(* case-insensitively), that row is backfilled with the id and no second   *)
(* row is created; a row with the same names that holds a different church *)
(* id is never merged.                                                     *)
(***************************************************************************)
C6_FallbackMatching ==
    last_op.kind = "lcr" =>
        /\ ( /\ Introduces(last_op.before, LastRow)
             /\ FallbackRows(last_op.before, LastRow) # {}
             /\ LastRow.first_name # "" /\ LastRow.last_name # "" )
           => Backfilled(last_op.before, last_op.after, LastRow)
        /\ NamesakesUntouched(last_op.before, last_op.after, LastRow)

C6_Witness ==
    /\ last_op.kind = "lcr"
    /\ Introduces(last_op.before, LastRow)
    /\ LastRow.first_name # lower(LastRow.first_name)
    /\ \E m \in FallbackRows(last_op.before, LastRow) :
          m.first_name # LastRow.first_name
    /\ \E m \in last_op.before :
          NotNull(m.church_id) /\ m.church_id # LastRow.church_id
          /\ SameName(m, LastRow)
    /\ Backfilled(last_op.before, last_op.after, LastRow)

\* C6 as the specification words it: for every record, whatever its names
C6_AnyNames ==
    last_op.kind = "lcr" =>
        /\ ( /\ Introduces(last_op.before, LastRow)
             /\ FallbackRows(last_op.before, LastRow) # {} )
           => Backfilled(last_op.before, last_op.after, LastRow)
        /\ NamesakesUntouched(last_op.before, last_op.after, LastRow)

\* a field that was populated keeps its value, an empty one takes the record's
Merged(old, new, incoming) == new = IF NotNull(old) THEN old ELSE incoming

(***************************************************************************)
(* C7: when an LCR record is matched to a row by the name fallback, the    *)
(* row afterwards holds the record's church id, its empty contact and      *)
(* demographic fields are filled from the record, and the fields that were *)
(* populated keep their values.                                            *)
(***************************************************************************)
C7_MergeKeepsPopulated ==
    (last_op.kind = "lcr" /\ NotNull(last_op.pick)) =>
        LET old == RowById(last_op.before, Val(last_op.pick))
            new == RowById(last_op.after, Val(last_op.pick))
        IN  /\ new.church_id = LastRow.church_id
            /\ Merged(old.email, new.email, LastRow.email)
            /\ Merged(old.phone, new.phone, LastRow.phone)
            /\ Merged(old.gender, new.gender, LastRow.gender)
            /\ Merged(old.age, new.age, LastRow.age)


(***************************************************************************)
(* In-flight detection: snapshot rows that no longer resolve.              *)
(***************************************************************************)
\* LEFT JOIN organizations o, callings c: a current calling has the row's key
CallingResolves(pss) ==
    \E c \in callings, o \in organizations :
        /\ c.organization_id = o.id
        /\ o.name = pss.calling_org_name /\ c.title = pss.calling_title

\* LEFT JOIN members m ON m.church_id = pss.member_church_id
MemberResolves(pss) ==
    /\ NotNull(pss.member_church_id)
    /\ \E m \in members : m.church_id = pss.member_church_id

\* the calling changes detection created for the release of the row
ReleaseChangesFor(pss) ==
    {cc \in CreatedChanges :
        /\ cc.calling_org_name = Some(pss.calling_org_name)
        /\ cc.calling_title = Some(pss.calling_title)
        /\ IsNull(cc.new_member_church_id)
        /\ cc.current_member_church_id = pss.member_church_id}

\* the tasks detection created that belong to no calling change it created
OrphanTasks ==
    {t \in tasks :
        /\ \A old \in Val(pre_detect).tasks : old.id # t.id
        /\ \A cc \in CreatedChanges : t.calling_change_id # cc.id}

(***************************************************************************)
(* C11: for a snapshot row whose natural key resolves to no current        *)
(* calling or to no current member after the rebuild, detection creates no *)
(* calling change and no task, and the run goes on to its end.             *)
(***************************************************************************)
C11_ReleaseSkip ==
    phase = "done" =>
        /\ \A pss \in Val(pre_detect).pre_sync_calling_snapshot :
              (~CallingResolves(pss) \/ ~MemberResolves(pss))
                  => ReleaseChangesFor(pss) = {}
        /\ OrphanTasks = {}

\* one run skips a released row whose calling is gone and creates the calling
\* change of another released row
C11_Witness ==
    /\ phase = "done"
    /\ \E p1, p2 \in Val(pre_detect).pre_sync_calling_snapshot :
          /\ ~StillAssigned(p1) /\ ~TrackedAsRelease(p1)
          /\ ~CallingResolves(p1) /\ MemberResolves(p1)
          /\ ReleaseChangesFor(p1) = {}
          /\ CallingResolves(p2) /\ MemberResolves(p2)
          /\ ReleaseChangesFor(p2) # {}


(***************************************************************************)
(* Two concurrent runs (SpecConcurrent).                                   *)
(***************************************************************************)
BothDone == phase = "done" /\ other.phase = "done"

\* the annotated assignments of the database both runs started from
OriginAnnotated ==
    {j \in ActiveJoin(Val(other.origin)) :
        NotNull(j.ca.expected_release_date) \/ NotNull(j.ca.release_notes)}

\* the assignment with j's natural key carries j's annotation
KeepsAnnotation(j) ==
    \A k \in ActiveJoin(Tables) :
        SameKey(j, k) =>
            /\ k.ca.expected_release_date = j.ca.expected_release_date
            /\ k.ca.release_notes = j.ca.release_notes

\* the assignment with j's natural key is there, and has no annotation
LostAnnotation(j) ==
    \E k \in ActiveJoin(Tables) :
        /\ SameKey(j, k)
        /\ IsNull(k.ca.expected_release_date) /\ IsNull(k.ca.release_notes)

(***************************************************************************)
(* C12: with two runs interleaved at step granularity there is a reachable *)
(* state, both runs finished, in which an annotation that was there before *)
(* both runs is gone although its assignment's natural key is still there  *)
(* (C12_Witness); an annotation is lost only when the runs overlapped.     *)
(***************************************************************************)
C12_LossNeedsOverlap ==
    (BothDone /\ ~other.overlap) => \A j \in OriginAnnotated : KeepsAnnotation(j)

C12_Witness ==
    /\ BothDone /\ other.overlap
    /\ data = "P1" /\ other.data = "P1"
    /\ \E j \in OriginAnnotated : LostAnnotation(j)


(***************************************************************************)
(* The rebuild (SpecRebuild).                                              *)
(***************************************************************************)
\* the positions of the payload's member that the position loop keeps
KeptPositions ==
    LET payload == Val(rebuild).data
        ps == payload.households[1].members[1].positions
    IN  {ps[i] : i \in {k \in 1..Len(ps) :
                           position_in_scope(ps[k], home_unit_of(payload))}}

\* the names of the organizations in which the member holds the title
OrgsHolding(title) ==
    {j.o.name : j \in {k \in ActiveJoin(Tables) : k.c.title = title}}

\* the statements run one at a time leave what the function leaves
RebuildIsTheFunction ==
    Stage(4) =>
        LET payload == Val(rebuild).data
            d0 == [NewDatabase EXCEPT !.members = members,
                                      !.households = households]
        IN  Tables = sync_organizations_and_callings(d0, payload, member_uuid_map,
                                                     home_unit_of(payload))


\* the position loop has run
PositionsSynced == NotNull(rebuild) /\ Val(rebuild).stage >= 3

\* the title contains, in any letter case, a top-leadership substring
LeadershipTitle(position) ==
    \E sub \in {"bishop", "ward clerk", "ward executive secretary", "ward assistant"} :
        Contains(lower(position_name_of(position)), sub)

\* the slot of the position is in the structural lookup
SlotMapped(position) ==
    /\ TruthyStr(position.uuid)
    /\ Val(position.uuid) \in DOMAIN Val(rebuild).map

(***************************************************************************)
(* C13: a position whose title contains, in any letter case, 'bishop',     *)
(* 'ward clerk', 'ward executive secretary' or 'ward assistant' is held in *)
(* organization 'Bishopric' and in no other, whatever organization the     *)
(* structural lookup maps its slot to.                                     *)
(***************************************************************************)
C13_BishopricOverride ==
    PositionsSynced =>
        \A p \in KeptPositions :
            LeadershipTitle(p) => OrgsHolding(position_name_of(p)) = {"Bishopric"}

C13_Witness ==
    /\ PositionsSynced
    /\ \E p \in KeptPositions :
          /\ LeadershipTitle(p) /\ SlotMapped(p)
          /\ Val(rebuild).map[Val(p.uuid)] = "High Priests Quorum"
          /\ OrgsHolding(position_name_of(p)) = {"Bishopric"}
          /\ \E o \in organizations : o.name = "High Priests Quorum"


\* the nodes of a forest of the payload, each with the name of its parent node
RECURSIVE NodesUnder(_, _)
NodesUnder(orgs, parent) ==
    UNION {{[node |-> orgs[i], parent |-> parent]} \cup
           NodesUnder(orgs[i].childOrgs, Some(org_name_of(orgs[i]))) :
           i \in 1..Len(orgs)}

TreeNodes == NodesUnder(Val(rebuild).data.organizations, NULL)

\* both walks have run
OrgsCreated == NotNull(rebuild) /\ Val(rebuild).stage >= 2

\* a node with a parent and a generically-reused bare name
GenericNode(n) ==
    /\ NotNull(n.parent)
    /\ org_name_of(n.node) \in {"Teachers", "Activities", "Service", "Ministering"}

PrefixedName(n) == Val(n.parent) \o " - " \o org_name_of(n.node)

\* the kept positions listed on node n
PositionsOn(n) ==
    {p \in KeptPositions :
        TruthyStr(p.uuid) /\ Val(p.uuid) \in SeqToSet(n.node.positions)}

(***************************************************************************)
(* C14: a node with a parent whose bare name is Teachers, Activities,      *)
(* Service or Ministering is named '<parent name> - <name>' in the lookup  *)
(* and as its Organization row, and positions listed on two such nodes     *)
(* with different parents are never held in the same organization.         *)
(***************************************************************************)
C14_GenericDisambiguated ==
    /\ OrgsCreated =>
          \A n \in TreeNodes :
              GenericNode(n) =>
                  /\ \A u \in SeqToSet(n.node.positions) :
                        Val(rebuild).map[u] = PrefixedName(n)
                  /\ \E o \in organizations : o.name = PrefixedName(n)
    /\ PositionsSynced =>
          \A n1, n2 \in TreeNodes :
              (GenericNode(n1) /\ GenericNode(n2) /\ n1.parent # n2.parent) =>
                  \A p1 \in PositionsOn(n1), p2 \in PositionsOn(n2) :
                      (~LeadershipTitle(p1) /\ ~LeadershipTitle(p2)) =>
                          \E o1 \in OrgsHolding(position_name_of(p1)),
                             o2 \in OrgsHolding(position_name_of(p2)) : o1 # o2


\* the node's name contains a leadership-roster label
RosterName(name) ==
    \E label \in {"Class Presidency", "Class Adult Leaders", "Additional Callings",
                  "Quorum Presidency", "Quorum Adult Leaders"} :
        Contains(name, label)

RosterNode(n) == RosterName(org_name_of(n.node))

\* the child nodes of roster node n that the walk gives a row of their own
\* under the parent handed down (rosters and forced roots are left out)
FoldedChildren(n) ==
    {c \in SeqToSet(n.node.childOrgs) :
        ~RosterName(org_name_of(c)) /\
        org_name_of(c) \notin {"Music", "Sunday School", "Other"}}

\* the name of the row of child c of roster node n
FoldedName(n, c) ==
    IF NotNull(n.parent) /\
       org_name_of(c) \in {"Teachers", "Activities", "Service", "Ministering"}
    THEN Val(n.parent) \o " - " \o org_name_of(c)
    ELSE org_name_of(c)

\* the row of the parent of node n, NULL for a root
ParentRowId(n) ==
    IF IsNull(n.parent) THEN NULL
    ELSE Some((CHOOSE o \in organizations : o.name = Val(n.parent)).id)

TypeEntries(p) ==
    {i \in 1..Len(ORG_TYPE_NAMES) :
        Contains(upper(IF NotNull(p.type) THEN Val(p.type) ELSE ""),
                 ORG_TYPE_NAMES[i][1])}

\* the entries of the name-pattern table whose pattern is in the title, in
\* any letter case
NameEntries(p) ==
    {i \in 1..Len(POSITION_NAME_TO_ORG) :
        Contains(lower(position_name_of(p)), lower(POSITION_NAME_TO_ORG[i][1]))}

Least(S) == CHOOSE i \in S : \A j \in S : i <= j

\* the organization of a position without a top-leadership title
Fallback(p) ==
    IF SlotMapped(p) THEN Val(rebuild).map[Val(p.uuid)]
    ELSE IF TypeEntries(p) # {} THEN ORG_TYPE_NAMES[Least(TypeEntries(p))][2]
    ELSE IF NameEntries(p) # {} THEN POSITION_NAME_TO_ORG[Least(NameEntries(p))][2]
    ELSE "Other"

\* the kept positions with the title of p
Namesakes(p) ==
    {q \in KeptPositions : position_name_of(q) = position_name_of(p)}

Reseeded == Stage(4)

ForcedRoots == {o \in organizations : o.name \in {"Music", "Sunday School", "Other"}}

(***************************************************************************)
(* C17: after the rebuild and the reseed, every Organization named         *)
(* 'Music', 'Sunday School' or 'Other' has no parent, whether the walk,    *)
(* the position loop or the seeding pass created it.                       *)
(***************************************************************************)
C17_ForcedRoots ==
    Reseeded => \A o \in ForcedRoots : IsNull(o.parent_org_id)

\* a forced root that the tree nests under a node with a row, and one that
\* no node of the tree names
C17_Witness ==
    /\ Reseeded
    /\ \E n \in TreeNodes, o \in ForcedRoots :
          /\ NotNull(n.parent) /\ org_name_of(n.node) = o.name
          /\ \E up \in organizations : up.name = Val(n.parent)
          /\ IsNull(o.parent_org_id)
    /\ \E o \in ForcedRoots :
          /\ \A n \in TreeNodes : org_name_of(n.node) # o.name
          /\ IsNull(o.parent_org_id)


ActiveFor(calling_id, member_id) ==
    {a \in calling_assignments :
        a.is_active /\ a.calling_id = calling_id /\ a.member_id = member_id}

(***************************************************************************)
(* C19: during and after the rebuild there is at most one active           *)
(* assignment for each (calling, member) pair, also when several positions *)
(* of the member map to the same organization and title.                   *)
(***************************************************************************)
C19_OneActiveAssignment ==
    NotNull(rebuild) =>
        \A a \in calling_assignments :
            a.is_active => ActiveFor(a.calling_id, a.member_id) = {a}

\* the member's two positions have one title and one organization, and one
\* assignment
C19_Witness ==
    /\ PositionsSynced
    /\ LET ps == Val(rebuild).data.households[1].members[1].positions
       IN  /\ Len(ps) = 2
           /\ ps[1] \in KeptPositions /\ ps[2] \in KeptPositions
           /\ position_name_of(ps[1]) = position_name_of(ps[2])
           /\ Cardinality(OrgsHolding(position_name_of(ps[1]))) = 1
           /\ Cardinality({a \in calling_assignments : a.is_active}) = 1


(***************************************************************************)
(* The hard refresh, one DELETE at a time (SpecRefresh).                   *)
(***************************************************************************)
IsPrefix(q, r) == Len(q) <= Len(r) /\ \A i \in 1..Len(q) : q[i] = r[i]

\* all four DELETEs have run
Refreshed == Refreshing /\ Len(last_op.deleted) = 4

\* no row that remains refers to a row that is gone
NoDanglingChild ==
    /\ \A a \in calling_assignments : HasId(callings, a.calling_id)
    /\ \A c \in callings : HasId(organizations, c.organization_id)

\* the DELETEs run in the order of the claim, and none fails
DeletesInOrder ==
    Refreshing =>
        /\ IsPrefix(last_op.deleted,
                    <<"calling_assignments", "youth_interviews", "callings",
                      "organizations">>)
        /\ ~last_op.failed
        /\ NoDanglingChild

FourTablesEmpty ==
    /\ calling_assignments = {} /\ youth_interviews = {}
    /\ callings = {} /\ organizations = {}

\* the statements run one at a time leave what the function leaves
RefreshIsTheFunction ==
    Refreshed => Tables = hard_refresh_synced_tables(last_op.before)

\* the ChangeRecord rows before the refresh, without their cached calling id
Uncached(rows) == {[cc EXCEPT !.calling_id = NULL] : cc \in rows}

(***************************************************************************)
(* C20: the hard refresh deletes CallingAssignment, then the interview     *)
(* records, then Calling, then Organization; no DELETE fails and no        *)
(* remaining row of these tables refers to a deleted row; after the four   *)
(* DELETEs the four tables are empty, the Member, Household,               *)
(* PreSyncSnapshot and Task rows are as before, and every ChangeRecord row *)
(* is as before except for its cached calling id, which is NULL.           *)
(***************************************************************************)
C20_HardRefresh ==
    /\ DeletesInOrder
    /\ Refreshed =>
          /\ FourTablesEmpty
          /\ members = last_op.before.members
          /\ households = last_op.before.households
          /\ pre_sync_calling_snapshot = last_op.before.pre_sync_calling_snapshot
          /\ tasks = last_op.before.tasks
          /\ calling_changes = Uncached(last_op.before.calling_changes)

\* a refresh of a database with assignments, interviews, callings with
\* organizations, and a ChangeRecord that had a calling id
C20_Witness ==
    /\ Refreshed /\ FourTablesEmpty
    /\ last_op.before.calling_assignments # {}
    /\ last_op.before.youth_interviews # {}
    /\ \E o \in last_op.before.organizations : NotNull(o.parent_org_id)
    /\ last_op.before.pre_sync_calling_snapshot # {}
    /\ last_op.before.tasks # {}
    /\ \E cc \in last_op.before.calling_changes : NotNull(cc.calling_id)
    /\ \A cc \in calling_changes : IsNull(cc.calling_id)

\* C20 as stated: the ChangeRecord rows are untouched
C20_ChangeRecordsUntouched ==
    /\ DeletesInOrder
    /\ Refreshed =>
          /\ FourTablesEmpty
          /\ members = last_op.before.members
          /\ households = last_op.before.households
          /\ pre_sync_calling_snapshot = last_op.before.pre_sync_calling_snapshot
          /\ tasks = last_op.before.tasks
          /\ calling_changes = last_op.before.calling_changes


(***************************************************************************)
(* Long-lived rows (Spec).                                                 *)
(***************************************************************************)
\* every row of the table is still there, by id, after the step
RowsKept(rows, rows_after) == \A r \in rows : \E q \in rows_after : q.id = r.id

\* the uuids of the members of a payload
PayloadUuids(payload) ==
    UNION {{m.uuid : m \in SeqToSet(payload.households[i].members)} :
           i \in 1..Len(payload.households)}

(***************************************************************************)
(* C21: no step of a sync run, and no step between runs, deletes a Member, *)
(* Household, ChangeRecord or Task row; a Member that the payload no       *)
(* longer lists keeps its row.                                             *)
(***************************************************************************)
C21_NoDestruction ==
    [][ /\ RowsKept(members, members')
        /\ RowsKept(households, households')
        /\ RowsKept(calling_changes, calling_changes')
        /\ RowsKept(tasks, tasks') ]_vars

\* a finished run whose payload no longer lists a member, after a refresh
\* of a database with ChangeRecords and tasks
C21_Witness ==
    /\ phase = "done" /\ runs = 2
    /\ \E m \in members : Some(m.id) \notin PayloadUuids(Payloads[data])
    /\ Val(before).calling_assignments # {}
    /\ Val(before).calling_changes # {} /\ Val(before).tasks # {}
    /\ RowsKept(Val(before).members, members)
    /\ RowsKept(Val(before).tasks, tasks)


(***************************************************************************)
(* The re-link step (SpecRelink): main() and the application, which also   *)
(* stores considerations, calling needs and stewardships between two runs. *)
(* Each row caches an id next to the natural key it was written for.       *)
(***************************************************************************)
\* a row about member m; the cached id is written with it, or left for the sync
MemberRow(id, m, cached) ==
    [id |-> id, member_id |-> IF cached THEN Some(m.id) ELSE NULL,
     member_church_id |-> m.church_id]

\* the stewardship rows of the organizations, numbered from id on
RECURSIVE StewardshipRows(_, _)
StewardshipRows(orgs, id) ==
    IF orgs = {} THEN {}
    ELSE LET o == CHOOSE x \in orgs : TRUE
         IN  {[id |-> id, organization_id |-> Some(o.id),
               organization_name |-> Some(o.name)]}
             \cup StewardshipRows(orgs \ {o}, id + 1)

\* a planning session: a member is considered for a calling, a member is
\* noted as needing one, and every organization is put under a counselor
PlanningSession ==
    /\ organizations # {} /\ bishopric_stewardships = {}
    /\ \E m \in members, cached \in BOOLEAN :
          calling_considerations' =
              calling_considerations \cup {MemberRow(next_id, m, cached)}
    /\ \E m \in members :
          member_calling_needs' =
              member_calling_needs \cup {MemberRow(next_id + 1, m, TRUE)}
    /\ bishopric_stewardships' = StewardshipRows(organizations, next_id + 2)
    /\ next_id' = next_id + 2 + Cardinality(organizations)
    /\ Edited
    /\ UNCHANGED <<members, households, organizations, callings,
                   calling_assignments, youth_interviews,
                   pre_sync_calling_snapshot, calling_changes, tasks>>

NextRelink ==
    \/ StartRun
    \/ SyncMembersAndHouseholds
    \/ CapturePreSyncSnapshot
    \/ HardRefreshSyncedTables
    \/ SyncOrganizationsAndCallings
    \/ SyncYouthInterviews
    \/ RelinkCachedIds
    \/ RestoreUserEnteredData
    \/ DetectInFlightCallings
    \/ PlanChange
    \/ PlanningSession

SpecRelink == Init /\ [][NextRelink]_vars

\* the ids of the rows of db that the natural key names
CallingIdsFor(db, org_name, title) ==
    {Some(c.id) : c \in {k \in db.callings :
        \E o \in db.organizations :
            /\ k.organization_id = o.id
            /\ Some(o.name) = org_name /\ Some(k.title) = title}}

MemberIdsFor(db, church_id) ==
    {Some(m.id) : m \in {k \in db.members :
        NotNull(church_id) /\ k.church_id = church_id}}

OrgIdsFor(db, org_name) ==
    {Some(o.id) : o \in {k \in db.organizations : Some(k.name) = org_name}}

\* the cached id is one the key names; with no such row it is what it was
LinkedTo(ids, cached, cached_before) ==
    IF ids # {} THEN cached \in ids ELSE cached = cached_before

\* the member_id of every row follows its member_church_id
MemberIdsLinked(db, rows_before, rows) ==
    \A r \in rows :
        LinkedTo(MemberIdsFor(db, r.member_church_id), r.member_id,
                 RowById(rows_before, r.id).member_id)

\* db_before: the tables the step found; db: the tables it left
Relinked(db_before, db) ==
    /\ \A cc \in db.calling_changes :
          LET old == RowById(db_before.calling_changes, cc.id)
          IN  /\ LinkedTo(CallingIdsFor(db, cc.calling_org_name, cc.calling_title),
                          cc.calling_id, old.calling_id)
              /\ LinkedTo(MemberIdsFor(db, cc.new_member_church_id),
                          cc.new_member_id, old.new_member_id)
              /\ LinkedTo(MemberIdsFor(db, cc.current_member_church_id),
                          cc.current_member_id, old.current_member_id)
    /\ MemberIdsLinked(db, db_before.tasks, db.tasks)
    /\ MemberIdsLinked(db, db_before.calling_considerations,
                       db.calling_considerations)
    /\ MemberIdsLinked(db, db_before.member_calling_needs, db.member_calling_needs)
    /\ \A bs \in db.bishopric_stewardships :
          LinkedTo(OrgIdsFor(db, bs.organization_name), bs.organization_id,
                   RowById(db_before.bishopric_stewardships, bs.id).organization_id)

(***************************************************************************)
(* C22: the re-link step leaves every cached calling id, member id and     *)
(* organization id equal to the id of a row that the stored natural key    *)
(* names after the rebuild; a row whose natural key names nothing keeps    *)
(* the cached id the step found.                                           *)
(***************************************************************************)
C22_Relink == [][AtStep("relink_cached_ids") => Relinked(Tables, Tables')]_vars

\* a finished second run: a stewardship points at an organization of the
\* rebuild, a consideration written without a cached id has one, and the
\* calling need of a member without church_id has the id it was written with
C22_Witness ==
    /\ phase = "done" /\ runs = 2
    /\ \E bs \in bishopric_stewardships :
          /\ NotNull(bs.organization_id)
          /\ HasId(organizations, Val(bs.organization_id))
          /\ \E old \in Val(before).bishopric_stewardships :
                old.id = bs.id /\ old.organization_id # bs.organization_id
    /\ \E r \in member_calling_needs :
          /\ MemberIdsFor(Tables, r.member_church_id) = {}
          /\ NotNull(r.member_id) /\ r \in Val(before).member_calling_needs
    /\ \E r \in calling_considerations :
          /\ NotNull(r.member_id)
          /\ \E old \in Val(before).calling_considerations :
                old.id = r.id /\ IsNull(old.member_id)


(***************************************************************************)
(* The seeding pass (SpecRebuild): the tables it finds and the tables it   *)
(* leaves.                                                                 *)
(***************************************************************************)
CatalogOrgNames == {seed_data[i].name : i \in 1..Len(seed_data)}

\* the calling row names a pair of the catalog
CatalogCalling(db, c) ==
    \E i \in 1..Len(seed_data), o \in db.organizations :
        /\ o.id = c.organization_id /\ o.name = seed_data[i].name
        /\ c.title \in SeqToSet(seed_data[i].callings)

\* db_before: the tables the pass found; db: the tables it left
Seeded(db_before, db) ==
    /\ \A i \in 1..Len(seed_data) :
          LET e == seed_data[i]
          IN  /\ \E o \in db.organizations : o.name = e.name
              /\ \A t \in SeqToSet(e.callings) :
                    \E o \in db.organizations, c \in db.callings :
                        o.name = e.name /\ c.organization_id = o.id /\ c.title = t
              /\ \A o \in db_before.organizations :
                    o.name = e.name =>
                        \E q \in db.organizations :
                            q.id = o.id /\ q.display_order = e.display_order
    /\ \A c \in db_before.callings :
          CatalogCalling(db_before, c) =>
              \E q \in db.callings :
                  /\ q.id = c.id /\ q.organization_id = c.organization_id
                  /\ q.title = c.title
                  /\ q.display_order = get_calling_display_order(c.title)
    /\ RowsKept(db_before.organizations, db.organizations)
    /\ RowsKept(db_before.callings, db.callings)

(***************************************************************************)
(* C23: after the seeding pass every organization of the catalog exists    *)
(* and every (organization, title) pair of the catalog exists as a calling;*)
(* an organization that was there has the catalog's display order, a       *)
(* calling that was there has the display order of the title rule, and     *)
(* every organization and calling row that was there is still there under  *)
(* its id.                                                                 *)
(***************************************************************************)
C23_Seeding == [][Stage(3) => Seeded(Tables, Tables')]_vars

\* the pass found 'Sunday School' (a node of the tree) with the display order
\* of the name rule and the calling of the member's position under
\* 'Bishopric'; it created the vacant 'Bishop'
C23_Witness ==
    /\ Reseeded
    /\ \E o \in organizations, n \in TreeNodes :
          /\ o.name = "Sunday School" /\ org_name_of(n.node) = o.name
          /\ o.display_order = 7
          /\ get_org_display_order(o.name) # o.display_order
    /\ \E o \in organizations, c1, c2 \in callings :
          /\ o.name = "Bishopric"
          /\ c1.organization_id = o.id /\ c2.organization_id = o.id
          /\ c1.title = "Ward Clerk"
          /\ \E a \in calling_assignments : a.calling_id = c1.id
          /\ c2.title = "Bishop"
          /\ \A a \in calling_assignments : a.calling_id # c2.id

SeedFrame(db_before, db) ==
    /\ \A o \in db_before.organizations :
          IF o.name \in CatalogOrgNames
          THEN \E q \in db.organizations :
                  q.id = o.id /\ q.name = o.name /\ q.parent_org_id = o.parent_org_id
          ELSE o \in db.organizations
    /\ \A c \in db_before.callings :
          ~CatalogCalling(db_before, c) => c \in db.callings
    /\ db.calling_assignments = db_before.calling_assignments

(***************************************************************************)
(* C24: the seeding pass leaves every organization and every calling that  *)
(* the catalog does not name as it was (id, name, parent, display order),  *)
(* leaves the assignments as they were, and leaves the parent of an        *)
(* organization of the catalog as it was.                                  *)
(***************************************************************************)
C24_SeedingFrame == [][Stage(3) => SeedFrame(Tables, Tables')]_vars

\* the pass ran on a database with an organization and a calling outside the
\* catalog, an assignment, and 'Ward Missionaries' under its parent
C24_Witness ==
    /\ Reseeded
    /\ \E o \in organizations : o.name \notin CatalogOrgNames
    /\ \E c \in callings :
          /\ ~CatalogCalling(Tables, c)
          /\ \E a \in calling_assignments : a.calling_id = c.id
    /\ \E o \in organizations :
          o.name = "Ward Missionaries" /\ NotNull(o.parent_org_id)


(***************************************************************************)
(* get_calling_display_order alone (SpecOrder): a title is drawn, the      *)
(* function is applied, and last_op holds the title and the result.        *)
(***************************************************************************)
TitleWords ==
    {"Bishop", "President", "First Counselor", "SECOND COUNSELOR", "1st Counselor",
     "2nd counselor", "Counselor", "Leader", "Adult", "Executive", "Secretary",
     "Clerk", "Assistant", "Instructor", "Teacher", "Coordinator", "Committee",
     "Advisor", "Adviser", "Specialist", "Chorister", "Music Chairman",
     "Organist", "Pianist", "Choir", "Director", "Ward", "Gospel Doctrine",
     "Greeter"}

\* the titles of tests/test_sync_from_membertools.py
TestedTitles ==
    {"Bishop", "Bishopric First Counselor", "Bishopric Second Counselor",
     "Ward Executive Secretary", "Gospel Doctrine Teacher"}

\* the tested titles, and titles of one word and of two
Titles == TestedTitles \cup TitleWords \cup {a \o " " \o b : a, b \in TitleWords}

InitOrder ==
    /\ members = {} /\ households = {} /\ organizations = {} /\ callings = {}
    /\ calling_assignments = {} /\ youth_interviews = {}
    /\ pre_sync_calling_snapshot = {} /\ calling_changes = {} /\ tasks = {}
    /\ calling_considerations = {} /\ member_calling_needs = {}
    /\ bishopric_stewardships = {} /\ next_id = 1
    /\ phase = "idle" /\ pc = 0 /\ data = "P1" /\ member_uuid_map = {}
    /\ runs = 0 /\ edits = 0 /\ done_steps = <<>>
    /\ before = NULL /\ pre_detect = NULL /\ succeeds = FALSE
    /\ recover = NULL /\ lcr = NULL /\ other = NoOther /\ rebuild = NULL
    /\ client = NoClient /\ tokens_file = NoFile
    /\ \E title \in Titles : last_op = [kind |-> "title", title |-> title, order |-> 0]

GetCallingDisplayOrder ==
    /\ last_op.kind = "title"
    /\ last_op' = [last_op EXCEPT !.kind = "order",
                                  !.order = get_calling_display_order(last_op.title)]
    /\ UNCHANGED <<tables, run, edits, before, pre_detect, succeeds, recover>>

SpecOrder == InitOrder /\ [][GetCallingDisplayOrder]_vars

\* the rule table, in the order of the function: a rule matches a lower-cased
\* title that contains one word of any, every word of all and no word of none
OrderRule(any, all, none, order) ==
    [any |-> any, all |-> all, none |-> none, order |-> order]

OrderRules ==
    << OrderRule({"bishop"}, {}, {"counselor"}, 1),
       OrderRule({"president"}, {}, {"counselor"}, 1),
       OrderRule({"first counselor"}, {}, {}, 2),
       OrderRule({"second counselor"}, {}, {}, 3),
       OrderRule({"1st counselor"}, {}, {}, 2),
       OrderRule({"2nd counselor"}, {}, {}, 3),
       OrderRule({"leader"}, {}, {"adult"}, 5),
       OrderRule({"secretary"}, {"executive"}, {}, 10),
       OrderRule({"secretary"}, {}, {}, 11),
       OrderRule({"clerk"}, {}, {"assistant"}, 12),
       OrderRule({"assistant"}, {"clerk"}, {}, 13),
       OrderRule({"instructor"}, {}, {}, 20),
       OrderRule({"teacher"}, {}, {}, 21),
       OrderRule({"coordinator"}, {}, {}, 30),
       OrderRule({"committee"}, {}, {}, 31),
       OrderRule({"advisor", "adviser"}, {}, {}, 40),
       OrderRule({"specialist"}, {}, {}, 41),
       OrderRule({"chorister", "music chairman"}, {}, {}, 25),
       OrderRule({"organist", "pianist"}, {}, {}, 26),
       OrderRule({"choir"}, {"director"}, {}, 24),
       OrderRule({"choir"}, {}, {}, 27) >>

\* the rules the title matches, by their place in the table
MatchingRules(title) ==
    LET t == lower(title)
    IN  {i \in 1..Len(OrderRules) :
            /\ \E w \in OrderRules[i].any : Contains(t, w)
            /\ \A w \in OrderRules[i].all : Contains(t, w)
            /\ \A w \in OrderRules[i].none : ~Contains(t, w)}

\* the weight of the earliest matching rule, 50 when no rule matches
FirstRuleOrder(title) ==
    LET hits == MatchingRules(title)
    IN  IF hits = {} THEN 50
        ELSE OrderRules[CHOOSE i \in hits : \A j \in hits : i <= j].order

(***************************************************************************)
(* C25: the display order of a title is the weight of the earliest rule of *)
(* the table that its lower-cased form matches, and 50 when none matches:  *)
(* 'Bishop' gets 1, a title containing 'first counselor' gets 2, a title   *)
(* containing 'second counselor' and not 'first counselor' gets 3, 'Ward   *)
(* Executive Secretary' gets a weight between 3 and 15 exclusive, and      *)
(* 'Gospel Doctrine Teacher' gets at least 20.                             *)
(***************************************************************************)
C25_DisplayOrder ==
    last_op.kind = "order" =>
        LET title == last_op.title
            order == last_op.order
            t == lower(title)
        IN  /\ order = FirstRuleOrder(title)
            /\ title = "Bishop" => order = 1
            /\ Contains(t, "first counselor") => order = 2
            /\ (Contains(t, "second counselor") /\ ~Contains(t, "first counselor"))
                   => order = 3
            /\ title = "Ward Executive Secretary" => (order > 3 /\ order < 15)
            /\ title = "Gospel Doctrine Teacher" => order >= 20
            /\ MatchingRules(title) = {} => order = 50

\* a title that matches rules of two groups with different weights, the later
\* one with the smaller weight, has the weight of the earlier one
C25_Witness ==
    /\ last_op.kind = "order"
    /\ \E i, j \in MatchingRules(last_op.title) :
          /\ i < j /\ OrderRules[j].order < OrderRules[i].order
          /\ \A k \in MatchingRules(last_op.title) : i <= k
          /\ last_op.order = OrderRules[i].order


(***************************************************************************)
(* The credential provider alone (SpecAuth): main() constructs the client  *)
(* and calls get_user() and sync(); _request runs a statement at a time;   *)
(* the two endpoints answer as they like.                                  *)
(***************************************************************************)
\* the tokens files a run can find: none, one without refresh_token, one
\* from `{"refresh_token": ...}` written by hand, one a run has saved
TokenFiles ==
    {NULL,
     Some([refresh_token |-> NULL, access_token |-> NULL]),
     Some([refresh_token |-> Some(1), access_token |-> NULL]),
     Some([refresh_token |-> Some(1), access_token |-> Some(1)])}

InitAuth ==
    /\ members = {} /\ households = {} /\ organizations = {} /\ callings = {}
    /\ calling_assignments = {} /\ youth_interviews = {}
    /\ pre_sync_calling_snapshot = {} /\ calling_changes = {} /\ tasks = {}
    /\ calling_considerations = {} /\ member_calling_needs = {}
    /\ bishopric_stewardships = {} /\ next_id = 1
    /\ phase = "idle" /\ pc = 0 /\ data = "P1" /\ member_uuid_map = {}
    /\ runs = 0 /\ edits = 0 /\ done_steps = <<>>
    /\ before = NULL /\ pre_detect = NULL /\ succeeds = FALSE
    /\ recover = NULL /\ last_op = NoOp /\ lcr = NULL /\ other = NoOther
    /\ rebuild = NULL
    /\ client = NoClient /\ tokens_file \in TokenFiles

AuthFrame ==
    UNCHANGED <<tables, phase, pc, data, member_uuid_map, done_steps, lcr, other,
                rebuild, edits, before, pre_detect, succeeds, recover, last_op>>

\* the process has ended, by sys.exit(1)
Exited(c) == [c EXCEPT !.at = "exited", !.exit_code = Some(1)]

\* main(): client = OAuthClient(TOKENS_FILE), then client.get_user()
NewClient ==
    /\ client.at \in {"off", "exited", "fetched"} /\ runs < MaxRuns
    /\ runs' = runs + 1
    /\ client' =
          IF IsNull(tokens_file) \/ IsNull(Val(tokens_file).refresh_token)
          THEN \* FileNotFoundError, ValueError
               Exited(NoClient)
          ELSE [load_tokens(NoClient, Val(tokens_file)) EXCEPT
                   !.at = "ensure", !.call = "get_user"]
    /\ UNCHANGED tokens_file
    /\ AuthFrame

\* a token the endpoint has not issued before
FreshToken ==
    LET known == {client.access_token, client.refresh_token}
                 \cup (IF NotNull(tokens_file)
                       THEN {Val(tokens_file).access_token,
                             Val(tokens_file).refresh_token}
                       ELSE {})
        n == {Val(t) : t \in {k \in known : NotNull(k)}}
    IN  1 + CHOOSE m \in n \cup {0} : \A k \in n : k <= m

\* what the token endpoint can answer
TokenResponses ==
    {TokenResponse(400, 0, NULL),
     TokenResponse(200, FreshToken, NULL),
     TokenResponse(200, FreshToken, Some(FreshToken))}

\* self._refresh_access_token() called from place `from`; _request goes on to
\* send the request
Refresh(from) ==
    /\ client.at = from
    /\ \E response \in TokenResponses :
       \E r \in {refresh_access_token(client, tokens_file, response)} :
          /\ client' = [(IF r.ok THEN [r.client EXCEPT !.at = "send"]
                         ELSE Exited(r.client))
                        EXCEPT !.refreshes = @ + 1,
                               !.token_response = Some(response)]
          /\ tokens_file' = r.file
    /\ UNCHANGED runs
    /\ AuthFrame

\* self._ensure_access_token()
EnsureAccessToken ==
    \/ /\ client.at = "ensure" /\ IsNull(client.access_token)
       /\ Refresh("ensure")
    \/ /\ client.at = "ensure" /\ NotNull(client.access_token)
       /\ client' = [client EXCEPT !.at = "send"]
       /\ UNCHANGED <<tokens_file, runs>>
       /\ AuthFrame

\* response = self.session.request(...), the first or the second time
SendRequest ==
    /\ client.at = "send"
    /\ \E status_code \in {200, 401, 500} :
          client' = [client EXCEPT
                        !.requests = @ + 1,
                        !.status_code = status_code,
                        !.at = after_response(status_code, client.requests + 1)]
    /\ UNCHANGED <<tokens_file, runs>>
    /\ AuthFrame

\* "Got 401, refreshing token and retrying..."
RefreshAfter401 ==
    /\ client.at = "refresh" /\ client.status_code = 401
    /\ Refresh("refresh")

\* _request returns; get_user() and sync(): response.raise_for_status()
Return ==
    /\ client.at = "return"
    /\ client' =
          IF client.status_code >= 400 THEN Exited(client)
          ELSE IF client.call = "get_user"
          THEN [client EXCEPT !.call = "sync", !.at = "ensure", !.requests = 0,
                              !.refreshes = 0, !.status_code = 0,
                              !.token_response = NULL]
          ELSE [client EXCEPT !.at = "fetched"]
    /\ UNCHANGED <<tokens_file, runs>>
    /\ AuthFrame

NextAuth ==
    \/ NewClient
    \/ EnsureAccessToken
    \/ SendRequest
    \/ RefreshAfter401
    \/ Return

SpecAuth == InitAuth /\ [][NextAuth]_vars

\* the statements of _request follow one another, and each endpoint answers
\* (or the request times out and raises)
SpecAuthLive ==
    /\ SpecAuth
    /\ WF_vars(EnsureAccessToken) /\ WF_vars(SendRequest)
    /\ WF_vars(RefreshAfter401) /\ WF_vars(Return)


\* _request has been called and has not returned or raised
InRequest == client.at \in {"ensure", "send", "refresh"}

\* one statement of _request, from the place it is at
RequestStep ==
    /\ client.at = "ensure" =>
          /\ client'.refreshes = (IF IsNull(client.access_token) THEN 1 ELSE 0)
          /\ client'.requests = 0
          /\ client'.at \in {"send", "exited"}
    /\ client.at = "send" =>
          /\ client'.requests = client.requests + 1
          /\ client'.refreshes = client.refreshes
          /\ client'.at = (IF client'.status_code = 401 /\ client.requests = 0
                           THEN "refresh" ELSE "return")
    /\ client.at = "refresh" =>
          /\ client'.refreshes = client.refreshes + 1
          /\ client'.requests = 1
          /\ client'.at \in {"send", "exited"}

RefreshAnswered(granted) ==
    /\ client'.refreshes = client.refreshes + 1
    /\ NotNull(client'.token_response)
    /\ (Val(client'.token_response).status_code = 200) = granted

(***************************************************************************)
(* C27: when the token endpoint refuses a refresh the run ends with exit   *)
(* code 1; the access and refresh credentials in memory and in the tokens  *)
(* file are what they were, and the process sends no request after it.     *)
(***************************************************************************)
C27_RefreshFailureFatal ==
    [][ /\ RefreshAnswered(FALSE) =>
              /\ client'.at = "exited" /\ client'.exit_code = Some(1)
              /\ client'.access_token = client.access_token
              /\ client'.refresh_token = client.refresh_token
              /\ tokens_file' = tokens_file
              /\ client'.requests = client.requests
        /\ client.at = "exited" => runs' = runs + 1 ]_vars

\* the refresh after a 401 is refused: the run has ended with the tokens of
\* the refresh before it, in memory and on disk
C27_Witness ==
    /\ client.at = "exited" /\ client.exit_code = Some(1)
    /\ client.requests = 1 /\ client.refreshes = 2
    /\ Val(client.token_response).status_code = 400
    /\ NotNull(client.access_token)
    /\ tokens_file = Some(save_tokens(client))

\* the tokens file holds the credentials of the client
PersistedIsInMemory ==
    client.call # "none" =>
        /\ NotNull(tokens_file)
        /\ Val(tokens_file).access_token = client.access_token
        /\ Val(tokens_file).refresh_token = client.refresh_token

(***************************************************************************)
(* C28: from the construction of the client on, the tokens file holds the  *)
(* access and refresh credentials the client holds; a granted refresh      *)
(* leaves both with the new access credential and with the new refresh     *)
(* credential when the response supplies one, the previous one otherwise.  *)
(***************************************************************************)
C28_StoreFollowsRefresh ==
    /\ []PersistedIsInMemory
    /\ [][RefreshAnswered(TRUE) =>
              LET response == Val(client'.token_response)
              IN  /\ client'.access_token = Some(response.access_token)
                  /\ client'.refresh_token =
                        (IF NotNull(response.refresh_token)
                         THEN response.refresh_token ELSE client.refresh_token)
                  /\ Val(tokens_file').access_token = client'.access_token
                  /\ Val(tokens_file').refresh_token = client'.refresh_token]_vars

\* two granted refreshes in one call, the first with a new refresh token and
\* the second without
C28_Witness ==
    /\ client.at = "send" /\ client.refreshes = 2
    /\ IsNull(Val(client.token_response).refresh_token)
    /\ client.refresh_token # Some(1)
    /\ client.access_token # client.refresh_token
    /\ PersistedIsInMemory


(***************************************************************************)
(* Member syncs and unique keys (SpecMembers).  Every member of the        *)
(* payloads and member lists has a church id the column accepts, so a      *)
(* member sync fails only on a unique key: the id, or the church_id.       *)
(***************************************************************************)
MemberSyncFailed == last_op.kind \in {"membertools_failed", "lcr_failed"}

(***************************************************************************)
(* C29: no member sync ends with a uniqueness violation, whatever rows the *)
(* members table holds: a member whose id or church id is already there,   *)
(* seen before without a church id or under another uuid, is upserted.     *)
(***************************************************************************)
C29_NoUniquenessViolation == ~MemberSyncFailed


(***************************************************************************)
(* Data shapes (SpecShapes): the member step and the rebuild on a payload  *)
(* of one member with one position, whose legacyCmisId, id and activeDate  *)
(* take the shapes JSON gives them.                                        *)
(***************************************************************************)
IdShapes == {NULL, PyInt(101), PyStr("101"), PyStr("7f3a-22"), PyStr("")}

ActiveDateShapes ==
    {NULL, Some("2024-01-07"), Some("2025-02-30"), Some("07/01/2024"), Some("")}

ShapedPayload(legacyCmisId, id, activeDate) ==
    Payload(Household(
        << ExtMember(Some("u-pat"),
                     [listed |-> Some("Doe, Pat"), spoken |-> Some("Pat Doe"),
                      given |-> Some("Pat")],
                     [legacyCmisId |-> legacyCmisId, id |-> id],
                     [NoContact EXCEPT !.classifications = {"HEAD"}],
                     << Position(Some("p-clerk"), Some("Ward Clerk"),
                                 Some("HIGH_PRIEST"), Some("Maple Ward"), HomeUnit,
                                 activeDate, TRUE) >>) >>))

InitShapes ==
    /\ \E legacyCmisId \in IdShapes, id \in IdShapes, activeDate \in ActiveDateShapes :
          rebuild = Some([stage |-> -1,
                          data |-> ShapedPayload(legacyCmisId, id, activeDate),
                          map |-> <<>>])
    /\ members = {} /\ households = {} /\ organizations = {} /\ callings = {}
    /\ calling_assignments = {} /\ youth_interviews = {}
    /\ pre_sync_calling_snapshot = {} /\ calling_changes = {} /\ tasks = {}
    /\ calling_considerations = {} /\ member_calling_needs = {}
    /\ bishopric_stewardships = {} /\ next_id = 1
    /\ phase = "running" /\ pc = 1 /\ data = "P1" /\ member_uuid_map = {}
    /\ runs = 1 /\ edits = 0 /\ done_steps = <<>>
    /\ before = NULL /\ pre_detect = NULL /\ succeeds = FALSE
    /\ recover = NULL /\ last_op = NoOp /\ lcr = NULL /\ other = NoOther
    /\ client = NoClient /\ tokens_file = NoFile

\* STEP 1 of main() on the payload; an exception ends the run
SyncShapedMember ==
    /\ Stage(-1) /\ phase = "running"
    /\ \E r \in {sync_members_and_households(Tables, Val(rebuild).data,
                                              home_unit_of(Val(rebuild).data))} :
          IF r.ok
          THEN /\ members' = r.members /\ households' = r.households
               /\ member_uuid_map' = r.member_uuid_map
               /\ StageDone(0)
               /\ UNCHANGED phase
          ELSE /\ phase' = "failed"
               /\ UNCHANGED <<members, households, member_uuid_map, rebuild>>
    /\ UNCHANGED <<organizations, callings, calling_assignments, youth_interviews,
                   pre_sync_calling_snapshot, calling_changes, tasks,
                   calling_considerations, member_calling_needs,
                   bishopric_stewardships, next_id, pc, data, runs, done_steps, lcr,
                   other, edits, before, pre_detect, succeeds, recover, last_op,
                   client, tokens_file>>

NextShapes ==
    \/ SyncShapedMember
    \/ BuildLookup
    \/ CreateOrgs
    \/ SyncPositions
    \/ SeedStandardCallings

SpecShapes == InitShapes /\ [][NextShapes]_vars

ShapedMember == Val(rebuild).data.households[1].members[1]

\* the church id of the claim: the integer, or the integer a string of digits
\* stands for, and NULL for any other value
AbsorbedChurchId(member) ==
    LET v == PyOr(member.legacyCmisId, member.id)
    IN  IF IsPyInt(v) THEN Some(v[2])
        ELSE IF IsPyStr(v) /\ isdigit(v[2]) THEN Some(int(v[2]))
        ELSE NULL

\* the member's row is there, with the church id of the claim
MemberAbsorbed ==
    \E m \in members :
        m.id = Val(ShapedMember.uuid) /\ m.church_id = AbsorbedChurchId(ShapedMember)

\* a position whose activeDate does not parse has an active assignment
\* without sustained date
PositionAbsorbed(position) ==
    IsNull(position_sustained_date(position)) =>
        \E a \in calling_assignments :
            /\ a.is_active /\ a.member_id = Val(ShapedMember.uuid)
            /\ IsNull(a.sustained_date)

(***************************************************************************)
(* C30: whatever the shape of a member's legacyCmisId and id, the run does *)
(* not abort and the member is upserted, with the integer (or the integer  *)
(* of the digit string) as church id and NULL otherwise; a position whose  *)
(* activeDate does not parse as YYYY-MM-DD gets its active assignment,     *)
(* without sustained date.                                                 *)
(***************************************************************************)
C30_AnomaliesAbsorbed ==
    /\ phase # "failed"
    /\ Val(rebuild).stage >= 0 => MemberAbsorbed
    /\ Val(rebuild).stage >= 3 => PositionAbsorbed(ShapedMember.positions[1])


(***************************************************************************)
(* DRY_RUN.  main() fetches the user and the payload, then either prints   *)
(* the summaries (DRY_RUN=1) or connects and runs the eight steps.         *)
(* last_op holds what the dry run printed.                                 *)
(***************************************************************************)
\* sum(len(i.get('members', [])) for i in interviews if needle in i.get('type', ''))
RECURSIVE count_interview_members(_, _, _)
count_interview_members(interviews, i, needle) ==
    IF i > Len(interviews) THEN 0
    ELSE (IF Contains(interviews[i].type, needle)
          THEN Len(interviews[i].members) ELSE 0)
         + count_interview_members(interviews, i + 1, needle)

\* a main() that connects whatever DRY_RUN says
main_always_writes(DRY_RUN, db, payload) == main(db, payload)

\* the tables after main(): under DRY_RUN no connection is opened
main_toggled(DRY_RUN, db, payload) ==
    IF DRY_RUN THEN db ELSE main(db, payload)

\* one run of main() with DRY_RUN=1, from the fetch to the last summary
DryRun ==
    /\ phase # "running" /\ runs < MaxRuns
    /\ \E p \in RunPayloads :
          /\ \E d \in {main_toggled(TRUE, Tables, Payloads[p])} : Commit(d)
          /\ last_op' =
                [kind |-> "dry_run",
                 households |-> Len(Payloads[p].households),
                 byi |-> count_interview_members(Payloads[p].actionInterviews, 1,
                                                 "BISHOP_YOUTH_INTERVIEW"),
                 bcyi |-> count_interview_members(Payloads[p].actionInterviews, 1,
                                                  "COUNSELOR_YOUTH_INTERVIEW")]
    /\ runs' = runs + 1
    /\ UNCHANGED <<phase, pc, data, member_uuid_map, edits, done_steps, before,
                   pre_detect, succeeds, recover, lcr, other, rebuild, client,
                   tokens_file>>

NextDryRun == Next \/ DryRun

SpecDryRun == Init /\ [][NextDryRun]_vars

\* a run that started and ended in one step: a dry run
DryRunStep == runs' = runs + 1 /\ phase' # "running"

(***************************************************************************)
(* C31: a run with the read-only toggle on fetches the payload and prints  *)
(* the summaries, and leaves every table exactly as it was before the run. *)
(***************************************************************************)
C31_DryRunWritesNothing ==
    [][DryRunStep => (Tables' = Tables /\ last_op'.kind = "dry_run")]_vars

\* a dry run was made on a database that a sync had filled, with a payload
\* whose households the summary counted
C31_Witness ==
    /\ last_op.kind = "dry_run" /\ last_op.households = 1 /\ last_op.byi = 1
    /\ phase \in {"done", "synced"} /\ members # {} /\ calling_assignments # {}


(***************************************************************************)
(* The scope filter (SpecScope): the member step and the rebuild on a      *)
(* payload of two households, one of the home unit and one of another      *)
(* unit, each with one member who holds one position of ScopePositions.    *)
(* The database is new, or holds the rows an earlier run made for the      *)
(* household of the other unit.                                            *)
(***************************************************************************)
OtherUnit == Some(2)

StakeClerk ==
    Position(NULL, Some("Stake Clerk"), Some("STAKE"), Some("Cedar Stake"),
             Some(9), NULL, FALSE)

ScopePositions == {WardClerk, VisitingBishop, StakeClerk, Pianist}

ScopePayload(homeUnits, johns, marys) ==
    [Payload(<< ExtHousehold(Some("h-1"), HomeUnit, NULL, Some("Smith"),
                             Some("1 Main St"), << John("u-john", <<johns>>) >>),
                ExtHousehold(Some("h-2"), OtherUnit, NULL, Some("Jones"),
                             Some("2 Oak St"), << Mary(<<marys>>) >>) >>)
        EXCEPT !.homeUnits = homeUnits]

\* what a run made of the household of the other unit when Mary was
\* listed under another name
StaleOtherUnit ==
    [NewDatabase EXCEPT
        !.households = {[id |-> "h-2", household_name |-> "Jones",
                         address |-> Some("9 Elm St")]},
        !.members = {[member_row(Mary(<<>>),
                                 ExtHousehold(Some("h-2"), OtherUnit, NULL,
                                              Some("Jones"), NULL, <<>>))
                         EXCEPT !.first_name = "Maria"]}]

InitScope ==
    /\ \E homeUnits \in {<<HomeUnit>>, <<>>},
          johns \in ScopePositions, marys \in ScopePositions,
          db \in {NewDatabase, StaleOtherUnit} :
          /\ rebuild = Some([stage |-> -1,
                             data |-> ScopePayload(homeUnits, johns, marys),
                             map |-> <<>>])
          /\ members = db.members /\ households = db.households
          /\ before = Some(db)
    /\ organizations = {} /\ callings = {}
    /\ calling_assignments = {} /\ youth_interviews = {}
    /\ pre_sync_calling_snapshot = {} /\ calling_changes = {} /\ tasks = {}
    /\ calling_considerations = {} /\ member_calling_needs = {}
    /\ bishopric_stewardships = {} /\ next_id = 1
    /\ phase = "running" /\ pc = 1 /\ data = "P1" /\ member_uuid_map = {}
    /\ runs = 1 /\ edits = 0 /\ done_steps = <<>>
    /\ pre_detect = NULL /\ succeeds = FALSE
    /\ recover = NULL /\ last_op = NoOp /\ lcr = NULL /\ other = NoOther
    /\ client = NoClient /\ tokens_file = NoFile

SpecScope == InitScope /\ [][NextShapes]_vars

\* the households of the payload, and the unit the run is restricted to
ScopeHouseholds == SeqToSet(Val(rebuild).data.households)
ScopeUnit == home_unit_of(Val(rebuild).data)

\* the rows of household h and of its members are those of db
RowsAsIn(db, h) ==
    /\ {r \in households : r.id = Val(h.uuid)}
          = {r \in db.households : r.id = Val(h.uuid)}
    /\ \A m \in SeqToSet(h.members) :
          {r \in members : r.id = Val(m.uuid)}
             = {r \in db.members : r.id = Val(m.uuid)}

\* the rows of household h and of its members are those step 1 sends
RowsUpserted(h) ==
    /\ \E r \in households : r.id = Val(h.uuid) /\ r.address = h.address
    /\ \A m \in SeqToSet(h.members) :
          \E r \in members :
              /\ r.id = Val(m.uuid)
              /\ r.first_name = member_name(m, h).first
              /\ r.household_id = h.uuid

\* the unit number is U or missing, or the unit name contains 'stake'
PassesUnitFilter(p) ==
    \/ p.unitNumber = ScopeUnit
    \/ IsNull(p.unitNumber)
    \/ (NotNull(p.unitName) /\ Contains(lower(Val(p.unitName)), "stake"))

\* the active assignments of member m to a calling titled as position p
AssignmentsFor(m, p) ==
    {a \in calling_assignments :
        /\ a.member_id = Val(m.uuid)
        /\ RowById(callings, a.calling_id).title = position_name_of(p)}

(***************************************************************************)
(* C32: with a home unit U, step 1 creates or updates household and member *)
(* rows only for the households whose unit number is U (the rows of any    *)
(* other household stay as they were), and the rebuild makes assignments   *)
(* only for members of those households and only for positions whose unit  *)
(* number is U or missing or whose unit name contains 'stake': a position  *)
(* of another unit that is no stake position gets no assignment.           *)
(***************************************************************************)
C32_ScopeFilter ==
    (NotNull(ScopeUnit) /\ phase = "running") =>
        /\ Val(rebuild).stage >= 0 =>
              \A h \in ScopeHouseholds :
                  IF h.unitNumber = ScopeUnit THEN RowsUpserted(h)
                  ELSE RowsAsIn(Val(before), h)
        /\ Val(rebuild).stage >= 3 =>
              /\ \A a \in calling_assignments :
                    \E h \in ScopeHouseholds :
                       /\ h.unitNumber = ScopeUnit
                       /\ \E m \in SeqToSet(h.members) :
                          \E p \in SeqToSet(m.positions) :
                             PassesUnitFilter(p) /\ a \in AssignmentsFor(m, p)
              /\ \A h \in ScopeHouseholds :
                 \A m \in SeqToSet(h.members) :
                 \A p \in SeqToSet(m.positions) :
                    AssignmentsFor(m, p) # {}
                       <=> (h.unitNumber = ScopeUnit /\ PassesUnitFilter(p))

\* the rebuild ran with a home unit: the stale rows of the other unit's
\* household are still there, its member's position of the home unit got no
\* assignment, and the home unit's member has none for a bishop's calling
\* in another ward
C32_Witness ==
    /\ NotNull(ScopeUnit) /\ Val(rebuild).stage = 4
    /\ \E r \in members : r.id = "u-mary" /\ r.first_name = "Maria"
    /\ Val(rebuild).data.households[1].members[1].positions = <<VisitingBishop>>
    /\ Val(rebuild).data.households[2].members[1].positions = <<WardClerk>>
    /\ calling_assignments = {}


(***************************************************************************)
(* Completeness of the rebuild (SpecRebuild).                              *)
(***************************************************************************)
\* the active assignments of the member to a calling titled title in an
\* organization named org_name
ActiveIn(member_id, org_name, title) ==
    {j.ca : j \in {k \in ActiveJoin(Tables) :
                      /\ k.m.id = member_id
                      /\ k.o.name = org_name /\ k.c.title = title}}

\* the assignments position p of the rebuild's member stands for
AssignmentsOf(p) ==
    ActiveIn(Val(Val(rebuild).data.households[1].members[1].uuid),
             position_org_name(p, Val(rebuild).map), position_name_of(p))

(***************************************************************************)
(* C33: after the rebuild, every position of a member upserted in step 1   *)
(* that passes the unit filter has exactly one active assignment of that   *)
(* member to the calling titled as the position in the organization the    *)
(* classifier names, and every active assignment stands for such a         *)
(* position.                                                               *)
(***************************************************************************)
C33_RebuildComplete ==
    PositionsSynced =>
        /\ \A p \in KeptPositions : Cardinality(AssignmentsOf(p)) = 1
        /\ \A a \in calling_assignments :
              a.is_active => \E p \in KeptPositions : a \in AssignmentsOf(p)

\* the rebuild is over: the member holds two positions of one title in two
\* organizations, each with its one assignment
C33_Witness ==
    /\ Stage(4)
    /\ \E p, q \in KeptPositions :
          /\ position_name_of(p) = position_name_of(q)
          /\ AssignmentsOf(p) # AssignmentsOf(q)
          /\ Cardinality(calling_assignments) = 2


\* the slots listed on the nodes of the tree that are rosters at the root, or
\* generic or roster nodes directly under a roster
SlotsOfRootRosters ==
    UNION {SeqToSet(n.node.positions) :
           n \in {m \in TreeNodes : RosterNode(m) /\ IsNull(m.parent)}}
SlotsUnderRosters ==
    UNION {SeqToSet(n.node.positions) :
           n \in {m \in TreeNodes :
                     /\ NotNull(m.parent) /\ RosterName(Val(m.parent))
                     /\ (RosterNode(m) \/ GenericNode(m))}}

(***************************************************************************)
(* C34: when both walks have run on a tree, the name the lookup walk gives *)
(* to a position slot is the name of an Organization row the               *)
(* materialization walk made, for every slot listed anywhere in the tree:  *)
(* also for slots on a roster node at the root and for slots on generic or *)
(* roster nodes under a roster node.                                       *)
(***************************************************************************)
C34_WalksAgree ==
    Stage(2) =>
        \A u \in DOMAIN Val(rebuild).map :
            \E o \in organizations : o.name = Val(rebuild).map[u]

\* on the other slots of the trees the two walks do agree
WalksAgreeElsewhere ==
    Stage(2) =>
        \A u \in (DOMAIN Val(rebuild).map) \ (SlotsOfRootRosters \cup SlotsUnderRosters) :
            \E o \in organizations : o.name = Val(rebuild).map[u]


(***************************************************************************)
(* Runs that follow a finished run (SpecLater): the database is what a run *)
(* of main() on one of the payloads left, and the runs and the edits of    *)
(* Spec follow.                                                            *)
(***************************************************************************)
InitLater ==
    /\ \E p \in LaterPayloads :
       \E d \in {main(NewDatabase, Payloads[p])} :
          /\ members = d.members /\ households = d.households
          /\ organizations = d.organizations /\ callings = d.callings
          /\ calling_assignments = d.calling_assignments
          /\ youth_interviews = d.youth_interviews
          /\ pre_sync_calling_snapshot = d.pre_sync_calling_snapshot
          /\ calling_changes = d.calling_changes /\ tasks = d.tasks
          /\ calling_considerations = d.calling_considerations
          /\ member_calling_needs = d.member_calling_needs
          /\ bishopric_stewardships = d.bishopric_stewardships
          /\ next_id = d.next_id
          /\ data = p
    /\ phase = "idle" /\ pc = 0 /\ member_uuid_map = {}
    /\ runs = 0 /\ edits = 0 /\ done_steps = <<>>
    /\ before = NULL /\ pre_detect = NULL /\ succeeds = FALSE
    /\ recover = NULL /\ last_op = NoOp /\ lcr = NULL /\ other = NoOther
    /\ rebuild = NULL
    /\ client = NoClient /\ tokens_file = NoFile

\* main() up to the first step, in SpecLater
StartLaterRun ==
    /\ phase # "running" /\ runs < MaxRuns
    /\ \E p \in LaterPayloads :
          /\ data' = p
          /\ succeeds' = (phase \in {"done", "synced"} /\ data = p)
    /\ phase' = "running" /\ pc' = 1 /\ runs' = runs + 1
    /\ member_uuid_map' = {} /\ done_steps' = <<>>
    /\ before' = Some(Tables) /\ pre_detect' = NULL
    /\ UNCHANGED <<tables, edits, recover, last_op, lcr, other, rebuild, client,
                   tokens_file>>

NextLater ==
    \/ StartLaterRun
    \/ SyncMembersAndHouseholds
    \/ CapturePreSyncSnapshot
    \/ HardRefreshSyncedTables
    \/ SyncOrganizationsAndCallings
    \/ SyncYouthInterviews
    \/ RelinkCachedIds
    \/ RestoreUserEnteredData
    \/ DetectInFlightCallings
    \/ CompleteChange
    \/ UserAnnotate

SpecLater == InitLater /\ [][NextLater]_vars

\* the calling changes of the release of (org_name, title, church_id) that
\* the run in progress created
ReleasesCreated(org_name, title, church_id) ==
    {cc \in calling_changes :
        /\ \A old \in Val(before).calling_changes : old.id # cc.id
        /\ cc.calling_org_name = Some(org_name)
        /\ cc.calling_title = Some(title)
        /\ IsNull(cc.new_member_church_id)
        /\ cc.current_member_church_id = church_id}

\* the releases the run before this one skipped: the rows of its snapshot
\* with no active assignment when it ended and whose calling, or the
\* organization of it, did not exist then
SkippedBefore ==
    {pss \in Val(before).pre_sync_calling_snapshot :
        /\ ~ActiveAssignmentFor(Val(before), pss.calling_org_name,
                                pss.calling_title, pss.member_church_id)
        /\ CallingsNamed(Val(before), Some(pss.calling_org_name),
                         Some(pss.calling_title)) = {}}

\* the run has finished; before holds the tables it started from
RunFinished == phase = "done" /\ NotNull(before)

(***************************************************************************)
(* C35: a release that one run skipped, because its calling or the         *)
(* organization of it did not exist after the rebuild, gets no calling     *)
(* change in a later run: the next run creates none for it, and a run      *)
(* creates the calling change of a release only for an assignment that was *)
(* active when the run started, which a skipped release is not.            *)
(***************************************************************************)
C35_SkippedNeverReported ==
    RunFinished =>
        /\ \A pss \in SkippedBefore :
              ReleasesCreated(pss.calling_org_name, pss.calling_title,
                              pss.member_church_id) = {}
        /\ \A cc \in calling_changes :
              (/\ \A old \in Val(before).calling_changes : old.id # cc.id
               /\ IsNull(cc.new_member_church_id))
                 => \E j \in ActiveJoin(Val(before)) :
                       /\ cc.calling_org_name = Some(j.o.name)
                       /\ cc.calling_title = Some(j.c.title)
                       /\ cc.current_member_church_id = j.m.church_id

\* the run before skipped a release, and this run has finished on a payload
\* in which another member holds the calling: the calling exists again, the
\* released member resolves and has no assignment to it, and no calling
\* change was created for the release
C35_Witness ==
    /\ RunFinished /\ runs = 2
    /\ \E pss \in SkippedBefore :
          /\ CallingsNamed(Tables, Some(pss.calling_org_name),
                           Some(pss.calling_title)) # {}
          /\ MembersWithChurchId(Tables, pss.member_church_id) # {}
          /\ ~ActiveAssignmentFor(Tables, pss.calling_org_name,
                                  pss.calling_title, pss.member_church_id)
          /\ ReleasesCreated(pss.calling_org_name, pss.calling_title,
                             pss.member_church_id) = {}


\* the calling changes in-flight detection had made for a new assignment
\* when the run started
DetectedBefore ==
    {cc \in Val(before).calling_changes :
        cc.source = "auto_detected" /\ NotNull(cc.new_member_church_id)}

\* the calling changes the run created for the (organization, title, member)
\* of cc, as a new assignment or as a release
CreatedAgain(cc) ==
    {c2 \in calling_changes :
        /\ \A old \in Val(before).calling_changes : old.id # c2.id
        /\ c2.calling_org_name = cc.calling_org_name
        /\ c2.calling_title = cc.calling_title
        /\ \/ c2.new_member_church_id = cc.new_member_church_id
           \/ c2.current_member_church_id = cc.new_member_church_id}

(***************************************************************************)
(* C36: after a run has created the calling change of a new assignment, a  *)
(* later run on the same payload creates no calling change for that        *)
(* (organization, title, member), also when the first calling change was   *)
(* completed between the two runs.                                         *)
(***************************************************************************)
C36_NoRedetection ==
    (RunFinished /\ succeeds) =>
        \A cc \in DetectedBefore : CreatedAgain(cc) = {}

\* the second run on a payload has finished; the calling change the first
\* made for an assignment, which is still active, was completed in between
C36_Witness ==
    /\ RunFinished /\ succeeds
    /\ \E cc \in DetectedBefore :
          /\ cc.status = "completed"
          /\ ActiveAssignmentFor(Tables, Val(cc.calling_org_name),
                                 Val(cc.calling_title), cc.new_member_church_id)
          /\ CreatedAgain(cc) = {}


\* the pairs <<j, k>> of an assignment j that was active when the run
\* started and the assignment k of the same member and title that the run
\* rebuilt under another organization name, no organization of the old name
\* being left
Renamed ==
    {jk \in ActiveJoin(Val(before)) \X ActiveJoin(Tables) :
        /\ jk[2].m.id = jk[1].m.id
        /\ jk[2].c.title = jk[1].c.title
        /\ jk[2].o.name # jk[1].o.name
        /\ \A o \in organizations : o.name # jk[1].o.name}

\* the calling changes the run created for k as a new assignment
CreatedNewFor(k) ==
    {cc \in calling_changes :
        /\ \A old \in Val(before).calling_changes : old.id # cc.id
        /\ cc.calling_org_name = Some(k.o.name)
        /\ cc.calling_title = Some(k.c.title)
        /\ cc.new_member_id = Some(k.m.id)
        /\ IsNull(cc.current_member_id)}

\* what the run makes of the renamed assignment: no release of the old
\* name, no annotation carried over, and (if asked) one new assignment
RenameHandled(j, k, as_new) ==
    /\ as_new => Cardinality(CreatedNewFor(k)) = 1
    /\ ReleasesCreated(j.o.name, j.c.title, j.m.church_id) = {}
    /\ \A cc \in calling_changes :
          (\A old \in Val(before).calling_changes : old.id # cc.id)
             => cc.calling_org_name # Some(j.o.name)
    /\ IsNull(k.ca.expected_release_date) /\ IsNull(k.ca.release_notes)

SetApartClerk == [PlainClerk EXCEPT !.setApart = TRUE]
UndatedClerk == [PlainClerk EXCEPT !.setApart = TRUE, !.activeDate = NULL]

SetApartPool ==
    {WardClerk, PlainClerk, SetApartClerk, UndatedClerk, EqTeacher, RsTeacher}

InitSetApart ==
    /\ \E positions \in UNION {[1..n -> SetApartPool] : n \in 0..MaxPositions} :
          rebuild = Some([stage |-> -1,
                          data |-> RebuildPayload(OrgTree, positions),
                          map |-> <<>>])
    /\ members = {} /\ households = {} /\ organizations = {} /\ callings = {}
    /\ calling_assignments = {} /\ youth_interviews = {}
    /\ pre_sync_calling_snapshot = {} /\ calling_changes = {} /\ tasks = {}
    /\ calling_considerations = {} /\ member_calling_needs = {}
    /\ bishopric_stewardships = {} /\ next_id = 1
    /\ phase = "running" /\ pc = 1 /\ data = "P1" /\ member_uuid_map = {}
    /\ runs = 1 /\ edits = 0 /\ done_steps = <<>>
    /\ before = Some(NewDatabase) /\ pre_detect = NULL /\ succeeds = FALSE
    /\ recover = NULL /\ last_op = NoOp /\ lcr = NULL /\ other = NoOther
    /\ client = NoClient /\ tokens_file = NoFile

\* STEP 5 to STEP 8 of main(), after the rebuild
StepsAfterRebuild ==
    /\ Stage(4) /\ phase = "running"
    /\ \E d \in {restore_user_entered_data(relink_cached_ids(
                    sync_youth_interviews(Tables, Val(rebuild).data,
                                          member_uuid_map)))} :
          /\ pre_detect' = Some(d)
          /\ \E r \in {detect_in_flight_callings(d)} : Commit(r)
    /\ StageDone(5)
    /\ phase' = "done"
    /\ UNCHANGED <<pc, data, member_uuid_map, runs, done_steps, lcr, other, edits,
                   before, succeeds, recover, last_op, client, tokens_file>>

NextSetApart ==
    \/ SyncShapedMember
    \/ BuildLookup
    \/ CreateOrgs
    \/ SyncPositions
    \/ SeedStandardCallings
    \/ StepsAfterRebuild

SpecSetApart == InitSetApart /\ [][NextSetApart]_vars

\* the positions of the rebuild's member, in the order of the payload
RebuiltPositions == Val(rebuild).data.households[1].members[1].positions

\* the set-apart date the INSERT derives from position p
DerivedSetApart(p) == IF p.setApart THEN position_sustained_date(p) ELSE NULL

\* the places in the payload of the positions that assignment a stands for
PlacesOf(a) ==
    {i \in 1..Len(RebuiltPositions) :
        /\ RebuiltPositions[i] \in KeptPositions
        /\ a \in AssignmentsOf(RebuiltPositions[i])}

\* the first of them from which a set-apart date derives, 0 when none does
FirstDated(a) ==
    LET dated == {i \in PlacesOf(a) : NotNull(DerivedSetApart(RebuiltPositions[i]))}
    IN  IF dated = {} THEN 0 ELSE CHOOSE i \in dated : \A k \in dated : i <= k

\* the two setting-apart tasks, one of each, of calling change cc
SettingApartTasks(cc) ==
    /\ Cardinality(PendingTasks(cc, "set_apart")) = 1
    /\ Cardinality(PendingTasks(cc, "record_set_apart")) = 1

(***************************************************************************)
(* C38, as the code has it: the set-apart date of a rebuilt assignment is  *)
(* the parsed active date of the first position of the member, among those *)
(* the assignment stands for, that is flagged set apart and has an active  *)
(* date that parses, and NULL when there is none; for an assignment that   *)
(* stands for one position this is the position's parsed active date when  *)
(* the flag is true and NULL otherwise.  An assignment with a NULL         *)
(* set-apart date that detection finds new gets the two setting-apart      *)
(* tasks, any other new assignment gets none.                              *)
(***************************************************************************)
C38_SetApartDate ==
    /\ PositionsSynced =>
          \A a \in calling_assignments :
              /\ PlacesOf(a) # {}
              /\ a.set_apart_date =
                    (IF FirstDated(a) = 0 THEN NULL
                     ELSE DerivedSetApart(RebuiltPositions[FirstDated(a)]))
              /\ Cardinality(PlacesOf(a)) = 1 =>
                    \A i \in PlacesOf(a) :
                        a.set_apart_date = DerivedSetApart(RebuiltPositions[i])
    /\ Stage(5) =>
          \A j \in ActiveJoin(Tables) :
              /\ Cardinality(CreatedAsNew(j)) = 1
              /\ \A cc \in CreatedAsNew(j) :
                    IF IsNull(j.ca.set_apart_date) THEN SettingApartTasks(cc)
                    ELSE /\ PendingTasks(cc, "set_apart") = {}
                         /\ PendingTasks(cc, "record_set_apart") = {}

\* the run is over: a teacher flagged set apart whose active date does not
\* parse has a NULL set-apart date and the two tasks, and a clerk set apart
\* on a date has that date and no such task
C38_Witness ==
    /\ Stage(5)
    /\ RebuiltPositions = <<EqTeacher, WardClerk>>
    /\ \E j \in ActiveJoin(Tables) :
          /\ j.c.title = "Teacher" /\ IsNull(j.ca.set_apart_date)
          /\ \E cc \in CreatedAsNew(j) : SettingApartTasks(cc)
    /\ \E j \in ActiveJoin(Tables) :
          /\ j.c.title = "Ward Clerk"
          /\ j.ca.set_apart_date = strptime_ymd("2024-01-07")
          /\ \E cc \in CreatedAsNew(j) : PendingTasks(cc, "set_apart") = {}

\* C38, as the claim has it: for every position, the set-apart date of its
\* assignment is the position's parsed active date when the flag is true and
\* NULL otherwise, and a flagged position without a date that parses has the
\* two setting-apart tasks.
C38_EveryPosition ==
    /\ PositionsSynced =>
          \A p \in KeptPositions : \A a \in AssignmentsOf(p) :
              a.set_apart_date = DerivedSetApart(p)
    /\ Stage(5) =>
          \A p \in KeptPositions :
              (p.setApart /\ IsNull(position_sustained_date(p))) =>
                  \A j \in ActiveJoin(Tables) :
                      j.ca \in AssignmentsOf(p) =>
                          \E cc \in CreatedAsNew(j) : SettingApartTasks(cc)


(***************************************************************************)
(* The stored church id under the member step of the membertools sync      *)
(* (SpecMembers: the members table holds rows of earlier imports and of    *)
(* LCR syncs, some with a church id the payload does not carry).           *)
(***************************************************************************)
\* the member records of a payload that the member step upserts
UpsertedMembers(payload) ==
    UNION {{h.members[i] : i \in {k \in 1..Len(h.members) : TruthyStr(h.members[k].uuid)}} :
           h \in {payload.households[k] :
                     k \in {n \in 1..Len(payload.households) :
                               /\ in_home_unit(payload.households[n],
                                               home_unit_of(payload))
                               /\ TruthyStr(payload.households[n].uuid)}}}

\* the record carries no church id the column takes
NoUsableChurchId(x) == ~IsPyInt(member_church_id(x))

\* a step that is one run of the member step of sync_from_membertools.py
MemberStepOf(p) ==
    /\ runs' = runs + 1 /\ lcr = NULL /\ lcr' = NULL
    /\ last_op'.kind \in {"membertools", "membertools_failed"}
    /\ members' = sync_members_and_households(Tables, Payloads[p],
                                              home_unit_of(Payloads[p])).members

(***************************************************************************)
(* C39: a run of the member step never takes a stored church id away: a    *)
(* row that has one still exists and still has one afterwards, and a row   *)
(* upserted from a record without a usable church id keeps the church id   *)
(* it had.                                                                 *)
(***************************************************************************)
C39_ChurchIdNeverErased ==
    [][\A p \in RunPayloads : MemberStepOf(p) =>
          /\ \A m \in members : NotNull(m.church_id) =>
                \E n \in members' : n.id = m.id /\ NotNull(n.church_id)
          /\ \A x \in UpsertedMembers(Payloads[p]) : NoUsableChurchId(x) =>
                \A m \in members : m.id = Val(x.uuid) =>
                    \E n \in members' : n.id = m.id /\ n.church_id = m.church_id
      ]_vars

\* an LCR sync gave the row of Cher the church id 103; a member step whose
\* payload has Cher with an id that is no number has run since, the row took
\* the payload's household and still has 103
C39_Witness ==
    /\ last_op.kind = "membertools"
    /\ \E x \in UpsertedMembers(Payloads["P1"]) :
          /\ NoUsableChurchId(x)
          /\ \E n \in members :
                /\ n.id = Val(x.uuid) /\ n.church_id = Some(103)
                /\ n.household_id = Some("h-1")

====
